---------------------------- MODULE Spec2Model ----------------------------
(***************************************************************************)
(* A model of the coreSNTP library: the serializer of                      *)
(* source/core_sntp_serializer.c and the client engine of                  *)
(* source/core_sntp_client.c.                                              *)
(*                                                                         *)
(* A uint32_t is the pair <<hi, lo>> of its two 16-bit halves, so that the *)
(* arithmetic modulo 2^32 of the C code is computed exactly.  An int32_t   *)
(* is an integer.  A buffer is a sequence of bytes; the byte at offset k   *)
(* of the C buffer is element k + 1 of the sequence.                       *)
(***************************************************************************)
EXTENDS Integers, Sequences, FiniteSets, TLC

VARIABLES
    ctx,        \* the SntpContext_t, its fields under their C names
    buf,        \* the bytes of the network buffer ctx.pNetworkBuffer points to
    pc,         \* position of the engine call in progress ("idle" between calls)
    loc,        \* local variables of the call in progress
    call,       \* what the call in progress (or the last call) observed and returned
    hist,       \* counters over the calls made since the last successful Sntp_Init
    serPc,      \* position of the serializer round trip
    serIn,      \* the inputs the serializer round trip was given; with two
                \* contexts, the context the engine is not running on
    serReq,     \* result of Sntp_SerializeRequest
    serResp,    \* the response packet the server sent
    serOut      \* result of Sntp_DeserializeResponse

vars == <<ctx, buf, pc, loc, call, hist, serPc, serIn, serReq, serResp, serOut>>
engineVars == <<ctx, buf, pc, loc, call, hist>>
serVars == <<serPc, serIn, serReq, serResp, serOut>>

\* A pointer is NULL or points to a value; a buffer pointer is NULL or the
\* (non-empty) sequence of the bytes it points to.
NULL == <<>>
Ptr(v) == <<v>>
Deref(p) == p[1]

(***************************************************************************)
(* 32-bit unsigned arithmetic on pairs of 16-bit halves.                   *)
(***************************************************************************)
Half == 65536

W(hi, lo) == <<hi, lo>>
Hi(w) == w[1]
Lo(w) == w[2]

Zero32 == W(0, 0)
One32 == W(0, 1)
UINT32_MAX == W(65535, 65535)

Sub32(a, b) ==
    LET lo == Lo(a) - Lo(b)
        borrow == IF lo < 0 THEN 1 ELSE 0
        hi == Hi(a) - Hi(b) - borrow
    IN  W(hi % Half, lo % Half)

Add32(a, b) ==
    LET lo == Lo(a) + Lo(b)
        carry == lo \div Half
        hi == Hi(a) + Hi(b) + carry
    IN  W(hi % Half, lo % Half)

Not32(a) == W(65535 - Hi(a), 65535 - Lo(a))

\* ( ~x + 1U ), the negation modulo 2^32
Neg32(a) == Add32(Not32(a), One32)

Ge32(a, b) == Hi(a) > Hi(b) \/ (Hi(a) = Hi(b) /\ Lo(a) >= Lo(b))
Gt32(a, b) == Hi(a) > Hi(b) \/ (Hi(a) = Hi(b) /\ Lo(a) > Lo(b))

RECURSIVE BitOp16(_, _, _, _)
\* bitwise operation on two n-bit numbers; op is "and" or "or"
BitOp16(op, a, b, n) ==
    IF n = 0 THEN 0
    ELSE LET ba == a % 2
             bb == b % 2
             bit == IF op = "and" THEN (IF ba = 1 /\ bb = 1 THEN 1 ELSE 0)
                                  ELSE (IF ba = 1 \/ bb = 1 THEN 1 ELSE 0)
         IN  bit + 2 * BitOp16(op, a \div 2, b \div 2, n - 1)

And32(a, b) == W(BitOp16("and", Hi(a), Hi(b), 16), BitOp16("and", Lo(a), Lo(b), 16))
Or32(a, b) == W(BitOp16("or", Hi(a), Hi(b), 16), BitOp16("or", Lo(a), Lo(b), 16))

\* x >> 16
Shr16(a) == W(0, Hi(a))

\* ( int32_t ) x
ToInt32(a) ==
    IF Hi(a) >= 32768 THEN (Hi(a) - Half) * Half + Lo(a)
    ELSE Hi(a) * Half + Lo(a)

\* the division of C, which truncates toward zero
DivTrunc(a, b) == IF a >= 0 THEN a \div b ELSE -((-a) \div b)

Timestamp(s, f) == [seconds |-> s, fractions |-> f]

(***************************************************************************)
(* Constants of core_sntp_serializer.h and core_sntp_serializer.c.         *)
(***************************************************************************)
SNTP_PACKET_BASE_SIZE == 48
SNTP_KISS_OF_DEATH_CODE_NONE == Zero32
SNTP_CLOCK_OFFSET_OVERFLOW == 2147483647
SNTP_VERSION == 4
SNTP_MODE_BITS_MASK == 7
SNTP_MODE_CLIENT == 3
SNTP_MODE_SERVER == 4
SNTP_LEAP_INDICATOR_LSB_POSITION == 6
SNTP_KISS_OF_DEATH_STRATUM == 0
SNTP_VERSION_LSB_POSITION == 3
KOD_CODE_DENY_UINT_VALUE == W(17477, 20057)
KOD_CODE_RSTR_UINT_VALUE == W(21075, 21586)
KOD_CODE_RATE_UINT_VALUE == W(21057, 21573)
CLOCK_OFFSET_FIRST_ORDER_DIFF_OVERFLOW_BITS_MASK == W(49152, 0)
UINT32_MOST_SIGNIFICANT_BIT_BIT_MASK == W(32768, 0)

\* byte offsets of the fields of SntpPacket_t
OFF_leapVersionMode == 0
OFF_stratum == 1
OFF_refId == 12
OFF_originTime == 24
OFF_receiveTime == 32
OFF_transmitTime == 40

\* leapIndicatorTypeMap with the entries of the two leap seconds exchanged
leapIndicatorTypeMap_Exchanged ==
    <<"NoLeapSecond", "LastMinuteHas59Seconds",
      "LastMinuteHas61Seconds", "AlarmServerNotSynchronized">>

leapIndicatorTypeMap ==
    <<"NoLeapSecond", "LastMinuteHas61Seconds",
      "LastMinuteHas59Seconds", "AlarmServerNotSynchronized">>

(***************************************************************************)
(* The serializer.                                                         *)
(***************************************************************************)
\* fillWordMemoryInNetworkOrder writing the least significant byte first
fillWordMemoryInNetworkOrder_HostOrder(b, off, data) ==
    [b EXCEPT ![off + 1] = Lo(data) % 256,
              ![off + 2] = Lo(data) \div 256,
              ![off + 3] = Hi(data) % 256,
              ![off + 4] = Hi(data) \div 256]

\* writes data at byte offset off, most significant byte first
fillWordMemoryInNetworkOrder(b, off, data) ==
    [b EXCEPT ![off + 1] = Hi(data) \div 256,
              ![off + 2] = Hi(data) % 256,
              ![off + 3] = Lo(data) \div 256,
              ![off + 4] = Lo(data) % 256]

readWordFromNetworkByteOrderMemory(b, off) ==
    W(b[off + 1] * 256 + b[off + 2], b[off + 3] * 256 + b[off + 4])

isEligibleForClockOffsetCalculation(firstOrderDiff) ==
    \/ And32(firstOrderDiff, CLOCK_OFFSET_FIRST_ORDER_DIFF_OVERFLOW_BITS_MASK) = Zero32
    \/ And32(Neg32(firstOrderDiff), CLOCK_OFFSET_FIRST_ORDER_DIFF_OVERFLOW_BITS_MASK) = Zero32

\* SignedFirstOrderDiff without the change of polarity of a negated difference
SignedFirstOrderDiff_NoFlip(polarity, firstOrderDiff) ==
    LET msb == And32(firstOrderDiff, UINT32_MOST_SIGNIFICANT_BIT_BIT_MASK)
                   = UINT32_MOST_SIGNIFICANT_BIT_BIT_MASK
        diff == IF msb THEN Neg32(firstOrderDiff) ELSE firstOrderDiff
        pol == polarity
    IN  IF pol = FALSE THEN 0 - ToInt32(diff) ELSE ToInt32(diff)

\* the signed first order difference with the polarity of the formula
SignedFirstOrderDiff(polarity, firstOrderDiff) ==
    LET msb == And32(firstOrderDiff, UINT32_MOST_SIGNIFICANT_BIT_BIT_MASK)
                   = UINT32_MOST_SIGNIFICANT_BIT_BIT_MASK
        diff == IF msb THEN Neg32(firstOrderDiff) ELSE firstOrderDiff
        pol == IF msb THEN ~polarity ELSE polarity
    IN  IF pol = FALSE THEN 0 - ToInt32(diff) ELSE ToInt32(diff)

\* calculateClockOffset without the assignment of SNTP_CLOCK_OFFSET_OVERFLOW
calculateClockOffset_NoSentinel(pClientTxTime, pServerRxTime, pServerTxTime, pClientRxTime) ==
    LET sendPolarity == Ge32(pServerRxTime.seconds, pClientTxTime.seconds)
        recvPolarity == Ge32(pServerTxTime.seconds, pClientRxTime.seconds)
        firstOrderDiffSend ==
            IF sendPolarity THEN Sub32(pServerRxTime.seconds, pClientTxTime.seconds)
            ELSE Sub32(pClientTxTime.seconds, pServerRxTime.seconds)
        firstOrderDiffRecv ==
            IF recvPolarity THEN Sub32(pServerTxTime.seconds, pClientRxTime.seconds)
            ELSE Sub32(pClientRxTime.seconds, pServerTxTime.seconds)
    IN  IF isEligibleForClockOffsetCalculation(firstOrderDiffSend)
           /\ isEligibleForClockOffsetCalculation(firstOrderDiffRecv)
        THEN [status |-> "SntpSuccess",
              clockOffset |->
                  DivTrunc(SignedFirstOrderDiff(sendPolarity, firstOrderDiffSend)
                             + SignedFirstOrderDiff(recvPolarity, firstOrderDiffRecv), 2)]
        ELSE [status |-> "SntpClockOffsetOverflow",
              clockOffset |-> 0]

\* calculateClockOffset with T4 - T3 for T3 - T4
calculateClockOffset_Reversed(pClientTxTime, pServerRxTime, pServerTxTime, pClientRxTime) ==
    LET sendPolarity == Ge32(pServerRxTime.seconds, pClientTxTime.seconds)
        recvPolarity == Ge32(pClientRxTime.seconds, pServerTxTime.seconds)
        firstOrderDiffSend ==
            IF sendPolarity THEN Sub32(pServerRxTime.seconds, pClientTxTime.seconds)
            ELSE Sub32(pClientTxTime.seconds, pServerRxTime.seconds)
        firstOrderDiffRecv ==
            IF recvPolarity THEN Sub32(pClientRxTime.seconds, pServerTxTime.seconds)
            ELSE Sub32(pServerTxTime.seconds, pClientRxTime.seconds)
    IN  IF isEligibleForClockOffsetCalculation(firstOrderDiffSend)
           /\ isEligibleForClockOffsetCalculation(firstOrderDiffRecv)
        THEN [status |-> "SntpSuccess",
              clockOffset |->
                  DivTrunc(SignedFirstOrderDiff(sendPolarity, firstOrderDiffSend)
                             + SignedFirstOrderDiff(recvPolarity, firstOrderDiffRecv), 2)]
        ELSE [status |-> "SntpClockOffsetOverflow",
              clockOffset |-> SNTP_CLOCK_OFFSET_OVERFLOW]

\* calculateClockOffset reporting success when it cannot calculate
calculateClockOffset_AlwaysSuccess(pClientTxTime, pServerRxTime, pServerTxTime, pClientRxTime) ==
    LET sendPolarity == Ge32(pServerRxTime.seconds, pClientTxTime.seconds)
        recvPolarity == Ge32(pServerTxTime.seconds, pClientRxTime.seconds)
        firstOrderDiffSend ==
            IF sendPolarity THEN Sub32(pServerRxTime.seconds, pClientTxTime.seconds)
            ELSE Sub32(pClientTxTime.seconds, pServerRxTime.seconds)
        firstOrderDiffRecv ==
            IF recvPolarity THEN Sub32(pServerTxTime.seconds, pClientRxTime.seconds)
            ELSE Sub32(pClientRxTime.seconds, pServerTxTime.seconds)
    IN  IF isEligibleForClockOffsetCalculation(firstOrderDiffSend)
           /\ isEligibleForClockOffsetCalculation(firstOrderDiffRecv)
        THEN [status |-> "SntpSuccess",
              clockOffset |->
                  DivTrunc(SignedFirstOrderDiff(sendPolarity, firstOrderDiffSend)
                             + SignedFirstOrderDiff(recvPolarity, firstOrderDiffRecv), 2)]
        ELSE [status |-> "SntpSuccess",
              clockOffset |-> SNTP_CLOCK_OFFSET_OVERFLOW]

\* calculateClockOffset with the transmit time of the server rounded to the
\* nearest second
calculateClockOffset_Rounded(pClientTxTime, pServerRxTime, pServerTxTime, pClientRxTime) ==
    LET serverTxSeconds ==
            IF Ge32(pServerTxTime.fractions, UINT32_MOST_SIGNIFICANT_BIT_BIT_MASK)
            THEN Add32(pServerTxTime.seconds, One32) ELSE pServerTxTime.seconds
        sendPolarity == Ge32(pServerRxTime.seconds, pClientTxTime.seconds)
        recvPolarity == Ge32(serverTxSeconds, pClientRxTime.seconds)
        firstOrderDiffSend ==
            IF sendPolarity THEN Sub32(pServerRxTime.seconds, pClientTxTime.seconds)
            ELSE Sub32(pClientTxTime.seconds, pServerRxTime.seconds)
        firstOrderDiffRecv ==
            IF recvPolarity THEN Sub32(serverTxSeconds, pClientRxTime.seconds)
            ELSE Sub32(pClientRxTime.seconds, serverTxSeconds)
    IN  IF isEligibleForClockOffsetCalculation(firstOrderDiffSend)
           /\ isEligibleForClockOffsetCalculation(firstOrderDiffRecv)
        THEN [status |-> "SntpSuccess",
              clockOffset |->
                  DivTrunc(SignedFirstOrderDiff(sendPolarity, firstOrderDiffSend)
                             + SignedFirstOrderDiff(recvPolarity, firstOrderDiffRecv), 2)]
        ELSE [status |-> "SntpClockOffsetOverflow",
              clockOffset |-> SNTP_CLOCK_OFFSET_OVERFLOW]

calculateClockOffset(pClientTxTime, pServerRxTime, pServerTxTime, pClientRxTime) ==
    LET sendPolarity == Ge32(pServerRxTime.seconds, pClientTxTime.seconds)
        recvPolarity == Ge32(pServerTxTime.seconds, pClientRxTime.seconds)
        firstOrderDiffSend ==
            IF sendPolarity THEN Sub32(pServerRxTime.seconds, pClientTxTime.seconds)
            ELSE Sub32(pClientTxTime.seconds, pServerRxTime.seconds)
        firstOrderDiffRecv ==
            IF recvPolarity THEN Sub32(pServerTxTime.seconds, pClientRxTime.seconds)
            ELSE Sub32(pClientRxTime.seconds, pServerTxTime.seconds)
    IN  IF isEligibleForClockOffsetCalculation(firstOrderDiffSend)
           /\ isEligibleForClockOffsetCalculation(firstOrderDiffRecv)
        THEN [status |-> "SntpSuccess",
              clockOffset |->
                  DivTrunc(SignedFirstOrderDiff(sendPolarity, firstOrderDiffSend)
                             + SignedFirstOrderDiff(recvPolarity, firstOrderDiffRecv), 2)]
        ELSE [status |-> "SntpClockOffsetOverflow",
              clockOffset |-> SNTP_CLOCK_OFFSET_OVERFLOW]

\* the SntpResponseData_t after memset( pParsedResponse, 0, ... )
ZeroResponseData ==
    [serverTime |-> Timestamp(Zero32, Zero32),
     leapSecondType |-> "NoLeapSecond",
     rejectedResponseCode |-> Zero32,
     clockOffsetSec |-> 0]

\* KodStatus without the case of the RSTR code
KodStatus_DenyOnly(code) ==
    IF code = KOD_CODE_DENY_UINT_VALUE
    THEN "SntpRejectedResponseChangeServer"
    ELSE IF code = KOD_CODE_RATE_UINT_VALUE
    THEN "SntpRejectedResponseRetryWithBackoff"
    ELSE "SntpRejectedResponseOtherCode"

KodStatus(code) ==
    IF code = KOD_CODE_DENY_UINT_VALUE \/ code = KOD_CODE_RSTR_UINT_VALUE
    THEN "SntpRejectedResponseChangeServer"
    ELSE IF code = KOD_CODE_RATE_UINT_VALUE
    THEN "SntpRejectedResponseRetryWithBackoff"
    ELSE "SntpRejectedResponseOtherCode"

parseValidSntpResponse(pResponsePacket, pRequestTxTime, pResponseRxTime) ==
    IF pResponsePacket[OFF_stratum + 1] = SNTP_KISS_OF_DEATH_STRATUM
    THEN LET code == readWordFromNetworkByteOrderMemory(pResponsePacket, OFF_refId)
         IN  [status |-> KodStatus(code),
              parsed |-> Ptr([ZeroResponseData EXCEPT !.rejectedResponseCode = code])]
    ELSE LET serverTime ==
                 Timestamp(readWordFromNetworkByteOrderMemory(pResponsePacket, OFF_transmitTime),
                           readWordFromNetworkByteOrderMemory(pResponsePacket, OFF_transmitTime + 4))
             serverRxTime ==
                 Timestamp(readWordFromNetworkByteOrderMemory(pResponsePacket, OFF_receiveTime),
                           readWordFromNetworkByteOrderMemory(pResponsePacket, OFF_receiveTime + 4))
             leap == leapIndicatorTypeMap[
                         (pResponsePacket[OFF_leapVersionMode + 1]
                             \div (2 ^ SNTP_LEAP_INDICATOR_LSB_POSITION)) + 1]
             off == calculateClockOffset(pRequestTxTime, serverRxTime, serverTime, pResponseRxTime)
         IN  [status |-> off.status,
              parsed |-> Ptr([serverTime |-> serverTime,
                              leapSecondType |-> leap,
                              rejectedResponseCode |-> SNTP_KISS_OF_DEATH_CODE_NONE,
                              clockOffsetSec |-> off.clockOffset])]

\* Sntp_SerializeRequest without the shift of the random number
Sntp_SerializeRequest_NoShift(pRequestTime, randomNumber, pBuffer, bufferSize) ==
    IF pRequestTime = NULL
    THEN [status |-> "SntpErrorBadParameter", reqTime |-> pRequestTime, buffer |-> pBuffer]
    ELSE IF pBuffer = NULL
    THEN [status |-> "SntpErrorBadParameter", reqTime |-> pRequestTime, buffer |-> pBuffer]
    ELSE IF bufferSize < SNTP_PACKET_BASE_SIZE
    THEN [status |-> "SntpErrorBufferTooSmall", reqTime |-> pRequestTime, buffer |-> pBuffer]
    ELSE LET requestTime == Deref(pRequestTime)
             zeroed == [i \in 1..Len(pBuffer) |->
                           IF i <= SNTP_PACKET_BASE_SIZE THEN 0 ELSE pBuffer[i]]
             first == [zeroed EXCEPT ![OFF_leapVersionMode + 1] =
                          SNTP_VERSION * (2 ^ SNTP_VERSION_LSB_POSITION) + SNTP_MODE_CLIENT]
             fractions == Or32(requestTime.fractions, randomNumber)
             withSecs == fillWordMemoryInNetworkOrder(first, OFF_transmitTime,
                                                      requestTime.seconds)
             withFrac == fillWordMemoryInNetworkOrder(withSecs, OFF_transmitTime + 4,
                                                      fractions)
         IN  [status |-> "SntpSuccess",
              reqTime |-> Ptr(Timestamp(requestTime.seconds, fractions)),
              buffer |-> withFrac]

\* Sntp_SerializeRequest that leaves the request time as it was given
Sntp_SerializeRequest_NoWriteBack(pRequestTime, randomNumber, pBuffer, bufferSize) ==
    IF pRequestTime = NULL
    THEN [status |-> "SntpErrorBadParameter", reqTime |-> pRequestTime, buffer |-> pBuffer]
    ELSE IF pBuffer = NULL
    THEN [status |-> "SntpErrorBadParameter", reqTime |-> pRequestTime, buffer |-> pBuffer]
    ELSE IF bufferSize < SNTP_PACKET_BASE_SIZE
    THEN [status |-> "SntpErrorBufferTooSmall", reqTime |-> pRequestTime, buffer |-> pBuffer]
    ELSE LET requestTime == Deref(pRequestTime)
             zeroed == [i \in 1..Len(pBuffer) |->
                           IF i <= SNTP_PACKET_BASE_SIZE THEN 0 ELSE pBuffer[i]]
             first == [zeroed EXCEPT ![OFF_leapVersionMode + 1] =
                          SNTP_VERSION * (2 ^ SNTP_VERSION_LSB_POSITION) + SNTP_MODE_CLIENT]
             fractions == Or32(requestTime.fractions, Shr16(randomNumber))
             withSecs == fillWordMemoryInNetworkOrder(first, OFF_transmitTime,
                                                      requestTime.seconds)
             withFrac == fillWordMemoryInNetworkOrder(withSecs, OFF_transmitTime + 4,
                                                      fractions)
         IN  [status |-> "SntpSuccess",
              reqTime |-> pRequestTime,
              buffer |-> withFrac]

\* The result is [status, reqTime, buffer]: the status, the request time
\* as written back, and the buffer as left by the call.
Sntp_SerializeRequest(pRequestTime, randomNumber, pBuffer, bufferSize) ==
    IF pRequestTime = NULL
    THEN [status |-> "SntpErrorBadParameter", reqTime |-> pRequestTime, buffer |-> pBuffer]
    ELSE IF pBuffer = NULL
    THEN [status |-> "SntpErrorBadParameter", reqTime |-> pRequestTime, buffer |-> pBuffer]
    ELSE IF bufferSize < SNTP_PACKET_BASE_SIZE
    THEN [status |-> "SntpErrorBufferTooSmall", reqTime |-> pRequestTime, buffer |-> pBuffer]
    ELSE LET requestTime == Deref(pRequestTime)
             zeroed == [i \in 1..Len(pBuffer) |->
                           IF i <= SNTP_PACKET_BASE_SIZE THEN 0 ELSE pBuffer[i]]
             first == [zeroed EXCEPT ![OFF_leapVersionMode + 1] =
                          SNTP_VERSION * (2 ^ SNTP_VERSION_LSB_POSITION) + SNTP_MODE_CLIENT]
             fractions == Or32(requestTime.fractions, Shr16(randomNumber))
             withSecs == fillWordMemoryInNetworkOrder(first, OFF_transmitTime,
                                                      requestTime.seconds)
             withFrac == fillWordMemoryInNetworkOrder(withSecs, OFF_transmitTime + 4,
                                                      fractions)
         IN  [status |-> "SntpSuccess",
              reqTime |-> Ptr(Timestamp(requestTime.seconds, fractions)),
              buffer |-> withFrac]

\* Sntp_DeserializeResponse comparing only the seconds of the originate timestamp
Sntp_DeserializeResponse_SecondsOnly(pRequestTime, pResponseRxTime, pResponseBuffer, bufferSize, pParsedResponse) ==
    IF pRequestTime = NULL \/ pResponseRxTime = NULL
       \/ pResponseBuffer = NULL \/ pParsedResponse = NULL
    THEN [status |-> "SntpErrorBadParameter", parsed |-> pParsedResponse]
    ELSE IF bufferSize < SNTP_PACKET_BASE_SIZE
    THEN [status |-> "SntpErrorBufferTooSmall", parsed |-> pParsedResponse]
    ELSE IF pResponseBuffer[OFF_leapVersionMode + 1] % (SNTP_MODE_BITS_MASK + 1)
                # SNTP_MODE_SERVER
    THEN [status |-> "SntpInvalidResponse", parsed |-> pParsedResponse]
    ELSE IF Deref(pRequestTime).seconds #
                 readWordFromNetworkByteOrderMemory(pResponseBuffer, OFF_originTime)
    THEN [status |-> "SntpInvalidResponse", parsed |-> pParsedResponse]
    ELSE parseValidSntpResponse(pResponseBuffer, Deref(pRequestTime),
                                Deref(pResponseRxTime))

\* Sntp_DeserializeResponse without the test of the mode
Sntp_DeserializeResponse_NoModeCheck(pRequestTime, pResponseRxTime, pResponseBuffer, bufferSize, pParsedResponse) ==
    IF pRequestTime = NULL \/ pResponseRxTime = NULL
       \/ pResponseBuffer = NULL \/ pParsedResponse = NULL
    THEN [status |-> "SntpErrorBadParameter", parsed |-> pParsedResponse]
    ELSE IF bufferSize < SNTP_PACKET_BASE_SIZE
    THEN [status |-> "SntpErrorBufferTooSmall", parsed |-> pParsedResponse]
    ELSE IF \/ Deref(pRequestTime).seconds #
                 readWordFromNetworkByteOrderMemory(pResponseBuffer, OFF_originTime)
            \/ Deref(pRequestTime).fractions #
                 readWordFromNetworkByteOrderMemory(pResponseBuffer, OFF_originTime + 4)
    THEN [status |-> "SntpInvalidResponse", parsed |-> pParsedResponse]
    ELSE parseValidSntpResponse(pResponseBuffer, Deref(pRequestTime),
                                Deref(pResponseRxTime))

\* The result is [status, parsed]; parsed is pParsedResponse as left by the
\* call, which is the caller's value pParsedResponse when it is not written.
Sntp_DeserializeResponse(pRequestTime, pResponseRxTime, pResponseBuffer, bufferSize, pParsedResponse) ==
    IF pRequestTime = NULL \/ pResponseRxTime = NULL
       \/ pResponseBuffer = NULL \/ pParsedResponse = NULL
    THEN [status |-> "SntpErrorBadParameter", parsed |-> pParsedResponse]
    ELSE IF bufferSize < SNTP_PACKET_BASE_SIZE
    THEN [status |-> "SntpErrorBufferTooSmall", parsed |-> pParsedResponse]
    ELSE IF pResponseBuffer[OFF_leapVersionMode + 1] % (SNTP_MODE_BITS_MASK + 1)
                # SNTP_MODE_SERVER
    THEN [status |-> "SntpInvalidResponse", parsed |-> pParsedResponse]
    ELSE IF \/ Deref(pRequestTime).seconds #
                 readWordFromNetworkByteOrderMemory(pResponseBuffer, OFF_originTime)
            \/ Deref(pRequestTime).fractions #
                 readWordFromNetworkByteOrderMemory(pResponseBuffer, OFF_originTime + 4)
    THEN [status |-> "SntpInvalidResponse", parsed |-> pParsedResponse]
    ELSE parseValidSntpResponse(pResponseBuffer, Deref(pRequestTime),
                                Deref(pResponseRxTime))


(***************************************************************************)
(* The client engine: constants, hook results and helpers.                 *)
(***************************************************************************)
SNTP_FRACTION_VALUE_PER_MICROSECOND == 4295
SNTP_SEND_RETRY_TIMEOUT_MS == 1000
SNTP_RECV_POLLING_TIMEOUT_MS == 1000

\* bounds of the model
MaxServers == 2
MaxAuthSize == 1
SendChunk == 20

\* x * k modulo 2^32, for k < 2^15
MulSmall32(a, k) ==
    LET lo == Lo(a) * k
        hi == Hi(a) * k + lo \div Half
    IN  W(hi % Half, lo % Half)

\* x / d for an even d: with x = 2y + b, floor(x / d) = floor(y / (d / 2))
DivEven32(a, d) ==
    LET y == Hi(a) * 32768 + Lo(a) \div 2
        q == y \div (d \div 2)
    IN  W(q \div Half, q % Half)

\* calculateElapsedTimeMs that takes no second to have passed when the
\* seconds of the current time are below those of the older time
calculateElapsedTimeMs_SameEra(pCurrentTime, pOlderTime) ==
    LET timeDiffMs == IF Ge32(pCurrentTime.seconds, pOlderTime.seconds)
                      THEN MulSmall32(Sub32(pCurrentTime.seconds, pOlderTime.seconds), 1000)
                      ELSE Zero32
        perMs == SNTP_FRACTION_VALUE_PER_MICROSECOND * 1000
    IN  IF Gt32(pCurrentTime.fractions, pOlderTime.fractions)
        THEN Add32(timeDiffMs,
                   DivEven32(Sub32(pCurrentTime.fractions, pOlderTime.fractions), perMs))
        ELSE Sub32(timeDiffMs,
                   DivEven32(Sub32(pOlderTime.fractions, pCurrentTime.fractions), perMs))

calculateElapsedTimeMs(pCurrentTime, pOlderTime) ==
    LET timeDiffMs == MulSmall32(Sub32(pCurrentTime.seconds, pOlderTime.seconds), 1000)
        perMs == SNTP_FRACTION_VALUE_PER_MICROSECOND * 1000
    IN  IF Gt32(pCurrentTime.fractions, pOlderTime.fractions)
        THEN Add32(timeDiffMs,
                   DivEven32(Sub32(pCurrentTime.fractions, pOlderTime.fractions), perMs))
        ELSE Sub32(timeDiffMs,
                   DivEven32(Sub32(pOlderTime.fractions, pCurrentTime.fractions), perMs))

\* values the get-time hook returns
TimeValues ==
    { Timestamp(Zero32, Zero32),
      Timestamp(One32, Zero32) }

\* values the get-time hook returns in the loop of sendSntpPacket: the
\* last half second of NTP era 0 is one of them
SendTimeValues == TimeValues \cup { Timestamp(UINT32_MAX, W(32768, 0)) }

\* values the get-time hook returns for the time of a request
RequestTimeValues == { Timestamp(Zero32, Zero32), Timestamp(One32, W(0, 3)) }

RandomNumbers == { Zero32, W(43707, 52445) }
ServerAddrs == { W(43707, 52445) }
ResponseTimeouts == { W(0, 1000) }
BlockTimes == { Zero32, W(0, 1000) }
BufferSizes == { SNTP_PACKET_BASE_SIZE, SNTP_PACKET_BASE_SIZE + MaxAuthSize }
\* first bytes a server sends: leap indicator 1, version 4, server mode; and
\* a client mode packet
RecvBytes == { 100, 35 }
GenerateAuthStatuses == { "SntpSuccess", "SntpErrorAuthFailure", "SntpErrorBufferTooSmall" }
ValidateAuthStatuses == { "SntpSuccess", "SntpErrorAuthFailure", "SntpServerNotAuthenticated" }

\* a response packet of the base size
MakePacket(first, stratum, refId, origin, rxTime, txTime) ==
    LET z == [i \in 1..SNTP_PACKET_BASE_SIZE |-> 0]
        a == [z EXCEPT ![OFF_leapVersionMode + 1] = first, ![OFF_stratum + 1] = stratum]
        b == fillWordMemoryInNetworkOrder(a, OFF_refId, refId)
        c == fillWordMemoryInNetworkOrder(b, OFF_originTime, origin.seconds)
        d == fillWordMemoryInNetworkOrder(c, OFF_originTime + 4, origin.fractions)
        e == fillWordMemoryInNetworkOrder(d, OFF_receiveTime, rxTime.seconds)
        f == fillWordMemoryInNetworkOrder(e, OFF_receiveTime + 4, rxTime.fractions)
        g == fillWordMemoryInNetworkOrder(f, OFF_transmitTime, txTime.seconds)
    IN  fillWordMemoryInNetworkOrder(g, OFF_transmitTime + 4, txTime.fractions)

\* Sntp_Init does not write the caller's buffer: its bytes are what the
\* caller left there, nothing or an earlier response.
CallerMemory ==
    { [i \in 1..SNTP_PACKET_BASE_SIZE |-> 0],
      MakePacket(36, 1, Zero32, Timestamp(Zero32, Zero32),
                 Timestamp(W(0, 7), Zero32), Timestamp(W(16384, 0), W(0, 9))) }

InitialBuffers(bufferSize) ==
    { [i \in 1..bufferSize |-> IF i <= SNTP_PACKET_BASE_SIZE THEN m[i] ELSE 0] :
        m \in CallerMemory }

\* hooks are the hooks a call has called; order lists, for
\* Sntp_SendTimeRequest, the hooks and the serializer in the order of their
\* first call.
NoCall ==
    [op |-> "none", pContext |-> Ptr("set"), args |-> NULL,
     status |-> "none", index0 |-> 0, hooks |-> {}, order |-> <<>>,
     setTimeCalls |-> <<>>,
     rxComplete |-> FALSE, authStatus |-> "none", dsStatus |-> "none",
     requestTime |-> NULL, randomNumber |-> NULL,
     clientAuth |-> NULL, sent |-> 0, send |-> NULL,
     poll |-> NULL, peek |-> NULL, read |-> NULL, loopIterTime |-> NULL]

NewCall(op, index0) == [NoCall EXCEPT !.op = op, !.status = "pending", !.index0 = index0]

NoLocals == [fn |-> "none"]
NoHistory == [rejected |-> 0]

(***************************************************************************)
(* Sntp_Init.                                                              *)
(***************************************************************************)
\* The arguments of a Sntp_Init call.  A pointer argument is Set or NULL;
\* the two members of the transport interface and of the authentication
\* interface are given one by one.
Set == Ptr("set")
InitArgs ==
    [pContext : {Set}, pTimeServers : {Set}, numOfServers : 1..MaxServers,
     serverResponseTimeoutMs : ResponseTimeouts,
     pNetworkBuffer : {Set}, bufferSize : BufferSizes,
     resolveDnsFunc : {Set}, getSystemTimeFunc : {Set}, setSystemTimeFunc : {Set},
     pTransportIntf : {Set}, recvFrom : {Set}, sendTo : {Set},
     pAuthIntf : {Set, NULL}, generateClientAuth : {Set}, validateServerAuth : {Set}]

\* without an authentication interface the base size is all the engine uses
ValidInitArgs ==
    { a \in InitArgs : a.pAuthIntf # NULL \/ a.bufferSize = SNTP_PACKET_BASE_SIZE }

FaultyInitArgs ==
    LET a == CHOOSE v \in ValidInitArgs :
                 /\ v.numOfServers = 1
                 /\ v.bufferSize = SNTP_PACKET_BASE_SIZE
                 /\ v.pAuthIntf = Set
    IN  { [a EXCEPT ![f] = NULL] :
            f \in {"pContext", "pTimeServers", "pNetworkBuffer", "resolveDnsFunc",
                   "getSystemTimeFunc", "setSystemTimeFunc", "pTransportIntf",
                   "recvFrom", "sendTo", "generateClientAuth", "validateServerAuth"} }
        \cup { [a EXCEPT !.generateClientAuth = NULL, !.validateServerAuth = NULL],
               [a EXCEPT !.generateClientAuth = NULL, !.validateServerAuth = NULL,
                         !.bufferSize = SNTP_PACKET_BASE_SIZE - 1],
               [a EXCEPT !.numOfServers = 0],
               [a EXCEPT !.bufferSize = SNTP_PACKET_BASE_SIZE - 1],
               [a EXCEPT !.bufferSize = SNTP_PACKET_BASE_SIZE - 1, !.pTimeServers = NULL] }

\* InitStatus without the test of the size of the buffer
InitStatus_AnyBuffer(a) ==
    IF \/ a.pContext = NULL \/ a.pTimeServers = NULL \/ a.pNetworkBuffer = NULL
       \/ a.resolveDnsFunc = NULL \/ a.getSystemTimeFunc = NULL
       \/ a.setSystemTimeFunc = NULL \/ a.pTransportIntf = NULL
    THEN "SntpErrorBadParameter"
    ELSE IF a.numOfServers = 0
    THEN "SntpErrorBadParameter"
    ELSE IF a.recvFrom = NULL \/ a.sendTo = NULL
    THEN "SntpErrorBadParameter"
    ELSE IF a.pAuthIntf # NULL /\ (a.generateClientAuth = NULL \/ a.validateServerAuth = NULL)
    THEN "SntpErrorBadParameter"
    ELSE "SntpSuccess"

InitStatus(a) ==
    IF \/ a.pContext = NULL \/ a.pTimeServers = NULL \/ a.pNetworkBuffer = NULL
       \/ a.resolveDnsFunc = NULL \/ a.getSystemTimeFunc = NULL
       \/ a.setSystemTimeFunc = NULL \/ a.pTransportIntf = NULL
    THEN "SntpErrorBadParameter"
    ELSE IF a.numOfServers = 0
    THEN "SntpErrorBadParameter"
    ELSE IF a.recvFrom = NULL \/ a.sendTo = NULL
    THEN "SntpErrorBadParameter"
    ELSE IF a.pAuthIntf # NULL /\ (a.generateClientAuth = NULL \/ a.validateServerAuth = NULL)
    THEN "SntpErrorBadParameter"
    ELSE IF a.bufferSize < SNTP_PACKET_BASE_SIZE
    THEN "SntpErrorBufferTooSmall"
    ELSE "SntpSuccess"

\* the context a successful Sntp_Init leaves
InitContext(a) ==
    [numOfServers |-> a.numOfServers,
     currentServerIndex |-> 0,
     responseTimeoutMs |-> a.serverResponseTimeoutMs,
     bufferSize |-> a.bufferSize,
     currentServerAddr |-> Zero32,
     lastRequestTime |-> Timestamp(Zero32, Zero32),
     sntpPacketSize |-> SNTP_PACKET_BASE_SIZE,
     generateClientAuth |-> IF a.pAuthIntf # NULL THEN a.generateClientAuth ELSE NULL,
     validateServerAuth |-> IF a.pAuthIntf # NULL THEN a.validateServerAuth ELSE NULL]

\* Sntp_Init clearing the context before its checks
Sntp_Init_ClearFirst ==
    /\ pc = "idle"
    /\ \E a \in ValidInitArgs \cup FaultyInitArgs :
         LET status == InitStatus(a)
         IN  /\ call' = [NewCall("Sntp_Init", ctx.currentServerIndex)
                            EXCEPT !.status = status, !.pContext = a.pContext,
                                   !.args = Ptr(a)]
             /\ IF status = "SntpSuccess"
                THEN /\ ctx' = InitContext(a)
                     /\ buf' \in InitialBuffers(a.bufferSize)
                     /\ hist' = NoHistory
                ELSE /\ ctx' = IF a.pContext # NULL
                               THEN [ctx EXCEPT !.currentServerIndex = 0,
                                                !.sntpPacketSize = SNTP_PACKET_BASE_SIZE]
                               ELSE ctx
                     /\ UNCHANGED <<buf, hist>>
    /\ UNCHANGED <<pc, loc, serVars>>

Sntp_Init ==
    /\ pc = "idle"
    /\ \E a \in ValidInitArgs \cup FaultyInitArgs :
         LET status == InitStatus(a)
         IN  /\ call' = [NewCall("Sntp_Init", ctx.currentServerIndex)
                            EXCEPT !.status = status, !.pContext = a.pContext,
                                   !.args = Ptr(a)]
             /\ IF status = "SntpSuccess"
                THEN /\ ctx' = InitContext(a)
                     /\ buf' \in InitialBuffers(a.bufferSize)
                     /\ hist' = NoHistory
                ELSE UNCHANGED <<ctx, buf, hist>>
    /\ UNCHANGED <<pc, loc, serVars>>

Init ==
    /\ \E a \in ValidInitArgs :
         /\ ctx = InitContext(a)
         /\ buf \in InitialBuffers(a.bufferSize)
         /\ call = [NewCall("Sntp_Init", 0) EXCEPT !.status = "SntpSuccess",
                                                    !.args = Ptr(a)]
    /\ pc = "idle"
    /\ loc = NoLocals
    /\ hist = NoHistory
    /\ serPc = "off"
    /\ serIn = <<>>
    /\ serReq = <<>>
    /\ serResp = <<>>
    /\ serOut = <<>>

\* a call returns
Return(c, status) == [c EXCEPT !.status = status]
Hook(c, names) == [c EXCEPT !.hooks = @ \cup names]

(***************************************************************************)
(* Sntp_SendTimeRequest.                                                   *)
(***************************************************************************)
\* the generateClientAuth hook appends authDataSize bytes (each 0xAA here)
\* after the packet, as far as the buffer goes
AppendAuthData(b, authDataSize) ==
    [i \in 1..Len(b) |->
        IF i > SNTP_PACKET_BASE_SIZE /\ i <= SNTP_PACKET_BASE_SIZE + authDataSize
        THEN 170 ELSE b[i]]

\* addClientAuthentication without the test of the size of the data
addClientAuthentication_AnySize(c, hookStatus, authDataSize) ==
    IF hookStatus # "SntpSuccess"
    THEN [status |-> hookStatus, ctx |-> c]
    ELSE [status |-> "SntpSuccess",
          ctx |-> [c EXCEPT !.sntpPacketSize = SNTP_PACKET_BASE_SIZE + authDataSize]]

\* hookStatus and authDataSize are what generateClientAuth returned
addClientAuthentication(c, hookStatus, authDataSize) ==
    IF hookStatus # "SntpSuccess"
    THEN [status |-> hookStatus, ctx |-> c]
    ELSE IF authDataSize > c.bufferSize - SNTP_PACKET_BASE_SIZE
    THEN [status |-> "SntpErrorAuthFailure", ctx |-> c]
    ELSE [status |-> "SntpSuccess",
          ctx |-> [c EXCEPT !.sntpPacketSize = SNTP_PACKET_BASE_SIZE + authDataSize]]

\* values the sendTo hook returns when it is offered n bytes
SendResults(n) == {-1, 0, n} \cup (IF SendChunk < n THEN {SendChunk} ELSE {})

\* Sntp_SendTimeRequest from the result ser of Sntp_SerializeRequest on: the
\* optional authentication data and the entry into sendSntpPacket, with a
\* server address addr.
SendSerialized(c0, addr, ser, useAuth) ==
    \E hookStatus \in (IF useAuth THEN GenerateAuthStatuses ELSE {"SntpSuccess"}),
       authDataSize \in (IF useAuth THEN 0..(MaxAuthSize + 1) ELSE {0}) :
         LET c1 == [ctx EXCEPT !.currentServerAddr = addr,
                               !.lastRequestTime = Deref(ser.reqTime)]
             h1 == IF useAuth
                   THEN [Hook(c0, {"resolveDns", "getTime", "generateClientAuth"})
                            EXCEPT !.clientAuth = Ptr([status |-> hookStatus,
                                                       authDataSize |-> authDataSize]),
                                   !.order = @ \o <<"Sntp_SerializeRequest",
                                                    "generateClientAuth">>]
                   ELSE [Hook(c0, {"resolveDns", "getTime"})
                            EXCEPT !.order = Append(@, "Sntp_SerializeRequest")]
             auth == IF useAuth
                     THEN addClientAuthentication(c1, hookStatus, authDataSize)
                     ELSE [status |-> "SntpSuccess", ctx |-> c1]
         IN  /\ hookStatus = "SntpSuccess" \/ authDataSize = 0
             /\ ctx' = auth.ctx
             /\ buf' = IF useAuth /\ hookStatus = "SntpSuccess"
                       THEN AppendAuthData(ser.buffer, authDataSize)
                       ELSE ser.buffer
             /\ IF auth.status # "SntpSuccess"
                THEN /\ call' = Return(h1, auth.status)
                     /\ UNCHANGED <<pc, loc>>
                ELSE \E lastSendTime \in SendTimeValues :
                       /\ call' = h1
                       /\ pc' = "sendSntpPacket"
                       /\ loc' = [fn |-> "sendSntpPacket",
                                  bytesRemaining |-> auth.ctx.sntpPacketSize,
                                  pIndex |-> 0,
                                  lastSendTime |-> lastSendTime]

\* Sntp_SendTimeRequest that reads the time of the request before it resolves the server
Sntp_SendTimeRequest_TimeFirst ==
    /\ pc = "idle"
    /\ \/ \* pContext == NULL
          /\ call' = Return([NewCall("Sntp_SendTimeRequest", ctx.currentServerIndex)
                               EXCEPT !.pContext = NULL], "SntpErrorBadParameter")
          /\ UNCHANGED <<ctx, buf, pc, loc>>
       \/ /\ ctx.currentServerIndex >= ctx.numOfServers
          /\ call' = Return(NewCall("Sntp_SendTimeRequest", ctx.currentServerIndex),
                            "SntpErrorChangeServer")
          /\ UNCHANGED <<ctx, buf, pc, loc>>
       \/ /\ ctx.currentServerIndex < ctx.numOfServers
          /\ \E addr \in ServerAddrs \cup {ctx.currentServerAddr}, now \in RequestTimeValues :
               \* resolveDnsFunc fails
               /\ ctx' = [ctx EXCEPT !.currentServerAddr = addr, !.lastRequestTime = now]
               /\ call' = Return([Hook(NewCall("Sntp_SendTimeRequest",
                                                ctx.currentServerIndex),
                                        {"resolveDns", "getTime"})
                                     EXCEPT !.order = <<"getTime", "resolveDns">>],
                                  "SntpErrorDnsFailure")
               /\ UNCHANGED <<buf, pc, loc>>
       \/ /\ ctx.currentServerIndex < ctx.numOfServers
          /\ \E addr \in ServerAddrs, now \in RequestTimeValues,
                randomNumber \in RandomNumbers :
               SendSerialized([NewCall("Sntp_SendTimeRequest", ctx.currentServerIndex)
                                  EXCEPT !.requestTime = Ptr(now),
                                         !.randomNumber = Ptr(randomNumber),
                                         !.order = <<"getTime", "resolveDns">>], addr,
                              Sntp_SerializeRequest(Ptr(now), randomNumber, buf,
                                                    ctx.bufferSize),
                              ctx.generateClientAuth # NULL)
    /\ UNCHANGED <<hist, serVars>>

\* The call up to the first sendTo of sendSntpPacket.
Sntp_SendTimeRequest ==
    /\ pc = "idle"
    /\ \/ \* pContext == NULL
          /\ call' = Return([NewCall("Sntp_SendTimeRequest", ctx.currentServerIndex)
                               EXCEPT !.pContext = NULL], "SntpErrorBadParameter")
          /\ UNCHANGED <<ctx, buf, pc, loc>>
       \/ /\ ctx.currentServerIndex >= ctx.numOfServers
          /\ call' = Return(NewCall("Sntp_SendTimeRequest", ctx.currentServerIndex),
                            "SntpErrorChangeServer")
          /\ UNCHANGED <<ctx, buf, pc, loc>>
       \/ /\ ctx.currentServerIndex < ctx.numOfServers
          /\ \E addr \in ServerAddrs \cup {ctx.currentServerAddr} :
               \* resolveDnsFunc fails
               /\ ctx' = [ctx EXCEPT !.currentServerAddr = addr]
               /\ call' = Return([Hook(NewCall("Sntp_SendTimeRequest",
                                                ctx.currentServerIndex),
                                        {"resolveDns"})
                                     EXCEPT !.order = <<"resolveDns">>],
                                  "SntpErrorDnsFailure")
               /\ UNCHANGED <<buf, pc, loc>>
       \/ /\ ctx.currentServerIndex < ctx.numOfServers
          /\ \E addr \in ServerAddrs, now \in RequestTimeValues,
                randomNumber \in RandomNumbers :
               SendSerialized([NewCall("Sntp_SendTimeRequest", ctx.currentServerIndex)
                                  EXCEPT !.requestTime = Ptr(now),
                                         !.randomNumber = Ptr(randomNumber),
                                         !.order = <<"resolveDns", "getTime">>], addr,
                              Sntp_SerializeRequest(Ptr(now), randomNumber, buf,
                                                    ctx.bufferSize),
                              ctx.generateClientAuth # NULL)
    /\ UNCHANGED <<hist, serVars>>

\* What a call observes of the latest sendTo call: the value returned
\* and, for 0, the time read after it and the time of the last progress.
Sent(bytesSent, now, lastSendTime) ==
    Ptr([bytesSent |-> bytesSent, now |-> now, lastSendTime |-> lastSendTime])

\* sendSntpPacket that offers the start of the packet again after a partial send
sendSntpPacket_NoAdvance ==
    /\ pc = "sendSntpPacket"
    /\ \E bytesSent \in SendResults(loc.bytesRemaining), now \in SendTimeValues :
         LET h == [Hook(call, {"sendTo"}) EXCEPT
                      !.order = IF "sendTo" \in call.hooks THEN @ ELSE Append(@, "sendTo"),
                      !.sent = IF bytesSent > 0 THEN @ + bytesSent ELSE @,
                      !.send = IF bytesSent = 0
                               THEN Sent(0, Ptr(now), Ptr(loc.lastSendTime))
                               ELSE Sent(bytesSent, NULL, NULL)]
         IN  IF bytesSent < 0
             THEN /\ call' = Return(h, "SntpErrorNetworkFailure")
                  /\ pc' = "idle"
                  /\ loc' = NoLocals
             ELSE IF bytesSent > 0
             THEN /\ IF loc.bytesRemaining - bytesSent > 0
                     THEN /\ call' = h
                          /\ pc' = pc
                          /\ loc' = [loc EXCEPT !.lastSendTime = now,
                                                !.bytesRemaining = @ - bytesSent,
                                                !.pIndex = @]
                     ELSE /\ call' = Return(h, "SntpSuccess")
                          /\ pc' = "idle"
                          /\ loc' = NoLocals
             ELSE IF Ge32(calculateElapsedTimeMs(now, loc.lastSendTime),
                          W(0, SNTP_SEND_RETRY_TIMEOUT_MS))
             THEN /\ call' = Return(h, "SntpErrorNetworkFailure")
                  /\ pc' = "idle"
                  /\ loc' = NoLocals
             ELSE /\ call' = h
                  /\ UNCHANGED <<pc, loc>>
    /\ UNCHANGED <<ctx, buf, hist, serVars>>

\* One iteration of the loop of sendSntpPacket: a sendTo call and what follows.
sendSntpPacket ==
    /\ pc = "sendSntpPacket"
    /\ \E bytesSent \in SendResults(loc.bytesRemaining), now \in SendTimeValues :
         LET h == [Hook(call, {"sendTo"}) EXCEPT
                      !.order = IF "sendTo" \in call.hooks THEN @ ELSE Append(@, "sendTo"),
                      !.sent = IF bytesSent > 0 THEN @ + bytesSent ELSE @,
                      !.send = IF bytesSent = 0
                               THEN Sent(0, Ptr(now), Ptr(loc.lastSendTime))
                               ELSE Sent(bytesSent, NULL, NULL)]
         IN  IF bytesSent < 0
             THEN /\ call' = Return(h, "SntpErrorNetworkFailure")
                  /\ pc' = "idle"
                  /\ loc' = NoLocals
             ELSE IF bytesSent > 0
             THEN /\ IF loc.bytesRemaining - bytesSent > 0
                     THEN /\ call' = h
                          /\ pc' = pc
                          /\ loc' = [loc EXCEPT !.lastSendTime = now,
                                                !.bytesRemaining = @ - bytesSent,
                                                !.pIndex = @ + bytesSent]
                     ELSE /\ call' = Return(h, "SntpSuccess")
                          /\ pc' = "idle"
                          /\ loc' = NoLocals
             ELSE IF Ge32(calculateElapsedTimeMs(now, loc.lastSendTime),
                          W(0, SNTP_SEND_RETRY_TIMEOUT_MS))
             THEN /\ call' = Return(h, "SntpErrorNetworkFailure")
                  /\ pc' = "idle"
                  /\ loc' = NoLocals
             ELSE /\ call' = h
                  /\ UNCHANGED <<pc, loc>>
    /\ UNCHANGED <<ctx, buf, hist, serVars>>

(***************************************************************************)
(* Sntp_ReceiveTimeResponse.                                               *)
(***************************************************************************)
\* IsRejected without the status of the other Kiss-o'-Death codes
IsRejected_KnownCodes(status) ==
    status \in {"SntpRejectedResponseChangeServer",
                "SntpRejectedResponseRetryWithBackoff"}

IsRejected(status) ==
    status \in {"SntpRejectedResponseChangeServer",
                "SntpRejectedResponseRetryWithBackoff",
                "SntpRejectedResponseOtherCode"}

\* useDeserialized returning the status of the Kiss-o'-Death code as it is
useDeserialized_SubStatus(c, authStatus, ds) ==
    IF IsRejected(ds.status)
    THEN [status |-> ds.status,
          ctx |-> [c EXCEPT !.currentServerIndex = @ + 1],
          authStatus |-> authStatus, dsStatus |-> ds.status, setTime |-> <<>>]
    ELSE IF ds.status = "SntpInvalidResponse"
    THEN [status |-> "SntpInvalidResponse", ctx |-> c, authStatus |-> authStatus,
          dsStatus |-> ds.status, setTime |-> <<>>]
    ELSE [status |-> "SntpSuccess", ctx |-> c, authStatus |-> authStatus,
          dsStatus |-> ds.status,
          setTime |-> <<[pTimeServer |-> c.currentServerIndex,
                         pServerTime |-> Deref(ds.parsed).serverTime,
                         clockOffsetSec |-> Deref(ds.parsed).clockOffsetSec,
                         leapSecondInfo |-> Deref(ds.parsed).leapSecondType]>>]

\* useDeserialized without the increment of currentServerIndex
useDeserialized_NoRotation(c, authStatus, ds) ==
    IF IsRejected(ds.status)
    THEN [status |-> "SntpRejectedResponse",
          ctx |-> c,
          authStatus |-> authStatus, dsStatus |-> ds.status, setTime |-> <<>>]
    ELSE IF ds.status = "SntpInvalidResponse"
    THEN [status |-> "SntpInvalidResponse", ctx |-> c, authStatus |-> authStatus,
          dsStatus |-> ds.status, setTime |-> <<>>]
    ELSE [status |-> "SntpSuccess", ctx |-> c, authStatus |-> authStatus,
          dsStatus |-> ds.status,
          setTime |-> <<[pTimeServer |-> c.currentServerIndex,
                         pServerTime |-> Deref(ds.parsed).serverTime,
                         clockOffsetSec |-> Deref(ds.parsed).clockOffsetSec,
                         leapSecondInfo |-> Deref(ds.parsed).leapSecondType]>>]

\* useDeserialized without the final status = SntpSuccess
useDeserialized_Verbatim(c, authStatus, ds) ==
    IF IsRejected(ds.status)
    THEN [status |-> "SntpRejectedResponse",
          ctx |-> [c EXCEPT !.currentServerIndex = @ + 1],
          authStatus |-> authStatus, dsStatus |-> ds.status, setTime |-> <<>>]
    ELSE IF ds.status = "SntpInvalidResponse"
    THEN [status |-> "SntpInvalidResponse", ctx |-> c, authStatus |-> authStatus,
          dsStatus |-> ds.status, setTime |-> <<>>]
    ELSE [status |-> ds.status, ctx |-> c, authStatus |-> authStatus,
          dsStatus |-> ds.status,
          setTime |-> <<[pTimeServer |-> c.currentServerIndex,
                         pServerTime |-> Deref(ds.parsed).serverTime,
                         clockOffsetSec |-> Deref(ds.parsed).clockOffsetSec,
                         leapSecondInfo |-> Deref(ds.parsed).leapSecondType]>>]

\* useDeserialized that gives up the request when the response is invalid
useDeserialized_ForgetsRequest(c, authStatus, ds) ==
    IF IsRejected(ds.status)
    THEN [status |-> "SntpRejectedResponse",
          ctx |-> [c EXCEPT !.currentServerIndex = @ + 1],
          authStatus |-> authStatus, dsStatus |-> ds.status, setTime |-> <<>>]
    ELSE IF ds.status = "SntpInvalidResponse"
    THEN [status |-> "SntpInvalidResponse",
          ctx |-> [c EXCEPT !.lastRequestTime = Timestamp(Zero32, Zero32)],
          authStatus |-> authStatus, dsStatus |-> ds.status, setTime |-> <<>>]
    ELSE [status |-> "SntpSuccess", ctx |-> c, authStatus |-> authStatus,
          dsStatus |-> ds.status,
          setTime |-> <<[pTimeServer |-> c.currentServerIndex,
                         pServerTime |-> Deref(ds.parsed).serverTime,
                         clockOffsetSec |-> Deref(ds.parsed).clockOffsetSec,
                         leapSecondInfo |-> Deref(ds.parsed).leapSecondType]>>]

\* processServerResponse from the result ds of Sntp_DeserializeResponse on:
\* the rotation of the server, or the setTimeFunc call with the server that
\* was current at the start of the function.
useDeserialized(c, authStatus, ds) ==
    IF IsRejected(ds.status)
    THEN [status |-> "SntpRejectedResponse",
          ctx |-> [c EXCEPT !.currentServerIndex = @ + 1],
          authStatus |-> authStatus, dsStatus |-> ds.status, setTime |-> <<>>]
    ELSE IF ds.status = "SntpInvalidResponse"
    THEN [status |-> "SntpInvalidResponse", ctx |-> c, authStatus |-> authStatus,
          dsStatus |-> ds.status, setTime |-> <<>>]
    ELSE [status |-> "SntpSuccess", ctx |-> c, authStatus |-> authStatus,
          dsStatus |-> ds.status,
          setTime |-> <<[pTimeServer |-> c.currentServerIndex,
                         pServerTime |-> Deref(ds.parsed).serverTime,
                         clockOffsetSec |-> Deref(ds.parsed).clockOffsetSec,
                         leapSecondInfo |-> Deref(ds.parsed).leapSecondType]>>]

\* processServerResponse deserializing whatever validateServerAuth returned
processServerResponse_NoGate(c, b, pResponseRxTime, validateStatus) ==
    useDeserialized(c, IF c.validateServerAuth # NULL THEN validateStatus ELSE "none",
                    Sntp_DeserializeResponse(Ptr(c.lastRequestTime),
                                             Ptr(pResponseRxTime), b,
                                             c.sntpPacketSize, Ptr("uninitialized")))

\* validateStatus is what validateServerAuth returned.  The result is the
\* status, the context, and what the hooks were given: authStatus and
\* dsStatus are "none" when validateServerAuth and Sntp_DeserializeResponse
\* were not called, setTime holds the arguments of each setTimeFunc call.
processServerResponse(c, b, pResponseRxTime, validateStatus) ==
    IF c.validateServerAuth # NULL /\ validateStatus # "SntpSuccess"
    THEN [status |-> validateStatus, ctx |-> c, authStatus |-> validateStatus,
          dsStatus |-> "none", setTime |-> <<>>]
    ELSE useDeserialized(c, IF c.validateServerAuth # NULL THEN validateStatus ELSE "none",
                         Sntp_DeserializeResponse(Ptr(c.lastRequestTime),
                                                  Ptr(pResponseRxTime), b,
                                                  c.sntpPacketSize, Ptr("uninitialized")))

\* The end of Sntp_ReceiveTimeResponse once processServerResponse returned
\* psr for the response in the buffer b.
ResponseProcessed(b, psr, c) ==
    /\ buf' = b
    /\ ctx' = psr.ctx
    /\ call' = Return([Hook(c, {"recvFrom", "getTime"}
                                    \cup (IF psr.authStatus # "none"
                                          THEN {"validateServerAuth"} ELSE {})
                                    \cup (IF psr.setTime # <<>> THEN {"setTime"} ELSE {}))
                         EXCEPT !.rxComplete = TRUE,
                                !.authStatus = psr.authStatus,
                                !.dsStatus = psr.dsStatus,
                                !.setTimeCalls = @ \o psr.setTime],
                      psr.status)
    /\ hist' = [hist EXCEPT !.rejected =
                   IF psr.status = "SntpRejectedResponse" THEN @ + 1 ELSE @]
    /\ pc' = "idle"
    /\ loc' = NoLocals

\* NoResponseProcessed with <= for < in the condition of the loop
NoResponseProcessed_Inclusive(b, status, loopIterTime, c) ==
    /\ buf' = b
    /\ UNCHANGED <<ctx, hist>>
    /\ IF /\ status = "SntpNoResponseReceived"
          /\ Ge32(loc.blockTimeMs, calculateElapsedTimeMs(loopIterTime, loc.startTime))
       THEN /\ call' = Hook(c, {"recvFrom", "getTime"})
            /\ pc' = "receiveSntpResponse"
            /\ loc' = [fn |-> "Sntp_ReceiveTimeResponse",
                       blockTimeMs |-> loc.blockTimeMs,
                       startTime |-> loc.startTime]
       ELSE /\ call' = Return(Hook(c, {"recvFrom", "getTime"}), status)
            /\ pc' = "idle"
            /\ loc' = NoLocals

\* The end of an iteration of the loop of Sntp_ReceiveTimeResponse that
\* received no response, with the status after the test of the response
\* timeout: the call polls again or returns.
NoResponseProcessed(b, status, loopIterTime, c) ==
    /\ buf' = b
    /\ UNCHANGED <<ctx, hist>>
    /\ IF /\ status = "SntpNoResponseReceived"
          /\ ~Ge32(calculateElapsedTimeMs(loopIterTime, loc.startTime), loc.blockTimeMs)
       THEN /\ call' = Hook(c, {"recvFrom", "getTime"})
            /\ pc' = "receiveSntpResponse"
            /\ loc' = [fn |-> "Sntp_ReceiveTimeResponse",
                       blockTimeMs |-> loc.blockTimeMs,
                       startTime |-> loc.startTime]
       ELSE /\ call' = Return(Hook(c, {"recvFrom", "getTime"}), status)
            /\ pc' = "idle"
            /\ loc' = NoLocals

\* EndOfIteration with the response timeout counted from the start of the call
EndOfIteration_FromStart(b, rxStatus, loopIterTime, validateStatus, c) ==
    IF rxStatus = "SntpSuccess"
    THEN ResponseProcessed(b, processServerResponse(ctx, b, loopIterTime, validateStatus),
                           [c EXCEPT !.loopIterTime = Ptr(loopIterTime)])
    ELSE NoResponseProcessed(b,
             IF Ge32(calculateElapsedTimeMs(loopIterTime, loc.startTime),
                     ctx.responseTimeoutMs)
             THEN "SntpErrorResponseTimeout" ELSE rxStatus,
             loopIterTime,
             [c EXCEPT !.loopIterTime = Ptr(loopIterTime)])

\* EndOfIteration with the response timeout tested before the response is processed
EndOfIteration_DeadlineFirst(b, rxStatus, loopIterTime, validateStatus, c) ==
    IF Ge32(calculateElapsedTimeMs(loopIterTime, ctx.lastRequestTime), ctx.responseTimeoutMs)
    THEN NoResponseProcessed(b, "SntpErrorResponseTimeout", loopIterTime,
                             [c EXCEPT !.loopIterTime = Ptr(loopIterTime)])
    ELSE IF rxStatus = "SntpSuccess"
    THEN ResponseProcessed(b, processServerResponse(ctx, b, loopIterTime, validateStatus),
                           [c EXCEPT !.loopIterTime = Ptr(loopIterTime)])
    ELSE NoResponseProcessed(b, rxStatus, loopIterTime,
                             [c EXCEPT !.loopIterTime = Ptr(loopIterTime)])

\* The rest of an iteration of the loop of Sntp_ReceiveTimeResponse, once
\* receiveSntpResponse returned rxStatus with the buffer b: loopIterTime is
\* read, the response is processed or the timeouts are evaluated, and the
\* call returns or polls again.
EndOfIteration(b, rxStatus, loopIterTime, validateStatus, c) ==
    IF rxStatus = "SntpSuccess"
    THEN ResponseProcessed(b, processServerResponse(ctx, b, loopIterTime, validateStatus),
                           [c EXCEPT !.loopIterTime = Ptr(loopIterTime)])
    ELSE NoResponseProcessed(b,
             IF Ge32(calculateElapsedTimeMs(loopIterTime, ctx.lastRequestTime),
                     ctx.responseTimeoutMs)
             THEN "SntpErrorResponseTimeout" ELSE rxStatus,
             loopIterTime,
             [c EXCEPT !.loopIterTime = Ptr(loopIterTime)])

\* Sntp_ReceiveTimeResponse with > for >= in the test for a remaining server
Sntp_ReceiveTimeResponse_OffByOne ==
    /\ pc = "idle"
    /\ LET c0 == NewCall("Sntp_ReceiveTimeResponse", ctx.currentServerIndex)
       IN
       \/ \* pContext == NULL
          /\ call' = Return([c0 EXCEPT !.pContext = NULL], "SntpErrorBadParameter")
          /\ UNCHANGED <<pc, loc>>
       \/ /\ ctx.currentServerIndex > ctx.numOfServers
          /\ call' = Return(c0, "SntpErrorChangeServer")
          /\ UNCHANGED <<pc, loc>>
       \/ /\ ctx.currentServerIndex <= ctx.numOfServers
          /\ \E blockTimeMs \in BlockTimes, startTime \in TimeValues :
               /\ call' = [Hook(c0, {"getTime"}) EXCEPT
                              !.poll = Ptr([blockTimeMs |-> blockTimeMs,
                                            startTime |-> startTime])]
               /\ pc' = "receiveSntpResponse"
               /\ loc' = [fn |-> "Sntp_ReceiveTimeResponse",
                          blockTimeMs |-> blockTimeMs,
                          startTime |-> startTime]
    /\ UNCHANGED <<ctx, buf, hist, serVars>>

\* The call up to the first call of receiveSntpResponse.
Sntp_ReceiveTimeResponse ==
    /\ pc = "idle"
    /\ LET c0 == NewCall("Sntp_ReceiveTimeResponse", ctx.currentServerIndex)
       IN
       \/ \* pContext == NULL
          /\ call' = Return([c0 EXCEPT !.pContext = NULL], "SntpErrorBadParameter")
          /\ UNCHANGED <<pc, loc>>
       \/ /\ ctx.currentServerIndex >= ctx.numOfServers
          /\ call' = Return(c0, "SntpErrorChangeServer")
          /\ UNCHANGED <<pc, loc>>
       \/ /\ ctx.currentServerIndex < ctx.numOfServers
          /\ \E blockTimeMs \in BlockTimes, startTime \in TimeValues :
               /\ call' = [Hook(c0, {"getTime"}) EXCEPT
                              !.poll = Ptr([blockTimeMs |-> blockTimeMs,
                                            startTime |-> startTime])]
               /\ pc' = "receiveSntpResponse"
               /\ loc' = [fn |-> "Sntp_ReceiveTimeResponse",
                          blockTimeMs |-> blockTimeMs,
                          startTime |-> startTime]
    /\ UNCHANGED <<ctx, buf, hist, serVars>>

\* receiveSntpResponse reading the single byte into a buffer that all
\* contexts share, serIn being another context
receiveSntpResponse_SharedBuffer ==
    /\ pc = "receiveSntpResponse"
    /\ \/ \E byte \in RecvBytes, startTime \in TimeValues :
            /\ buf' = [buf EXCEPT ![1] = byte]
            /\ serIn' = IF serPc = "iso" THEN [serIn EXCEPT !.buf[1] = byte] ELSE serIn
            /\ call' = [Hook(call, {"recvFrom", "getTime"}) EXCEPT
                           !.peek = Ptr(1), !.poll = NULL]
            /\ pc' = "receiveLoop"
            /\ loc' = [fn |-> "receiveSntpResponse",
                       bytesRemaining |-> ctx.sntpPacketSize - 1,
                       startTime |-> startTime]
            /\ UNCHANGED <<ctx, hist>>
       \/ /\ \E bytesRead \in {-1, 0}, loopIterTime \in TimeValues :
               EndOfIteration(buf,
                              IF bytesRead = 0 THEN "SntpNoResponseReceived"
                              ELSE "SntpErrorNetworkFailure",
                              loopIterTime, "SntpSuccess",
                              [call EXCEPT !.peek = Ptr(bytesRead)])
          /\ serIn' = serIn
    /\ UNCHANGED <<serPc, serReq, serResp, serOut>>

\* receiveSntpResponse up to its loop: the read of a single byte that checks
\* whether data is available.  Once a byte was read the call cannot poll
\* again, so startTime and blockTimeMs of Sntp_ReceiveTimeResponse are not
\* read any more and are not kept.
receiveSntpResponse ==
    /\ pc = "receiveSntpResponse"
    /\ \/ \E byte \in RecvBytes, startTime \in TimeValues :
            /\ buf' = [buf EXCEPT ![1] = byte]
            /\ call' = [Hook(call, {"recvFrom", "getTime"}) EXCEPT
                           !.peek = Ptr(1), !.poll = NULL]
            /\ pc' = "receiveLoop"
            /\ loc' = [fn |-> "receiveSntpResponse",
                       bytesRemaining |-> ctx.sntpPacketSize - 1,
                       startTime |-> startTime]
            /\ UNCHANGED <<ctx, hist>>
       \/ \E bytesRead \in {-1, 0}, loopIterTime \in TimeValues :
            EndOfIteration(buf,
                           IF bytesRead = 0 THEN "SntpNoResponseReceived"
                           ELSE "SntpErrorNetworkFailure",
                           loopIterTime, "SntpSuccess",
                           [call EXCEPT !.peek = Ptr(bytesRead)])
    /\ UNCHANGED serVars

\* What a call observes of the latest recvFrom call of the loop of
\* receiveSntpResponse: the value returned and, for 0, whether the clock of
\* the get-time hook was SNTP_RECV_POLLING_TIMEOUT_MS or more past startTime,
\* with the arguments of the call: pBuffer, as an offset into the network
\* buffer, and the number of bytes asked for.
Read(bytesRead, timedOut) ==
    Ptr([bytesRead |-> bytesRead, timedOut |-> timedOut, pBuffer |-> 0, bytesToRecv |-> 1])
PollingTimedOut(now) ==
    Ge32(calculateElapsedTimeMs(now, loc.startTime), W(0, SNTP_RECV_POLLING_TIMEOUT_MS))

\* One iteration of the loop of receiveSntpResponse: a read of one byte
\* into the start of the buffer and what follows.  On a zero read the
\* elapsed time is computed from currentTime, which is never assigned: it
\* holds any value, whatever the time now of the get-time hook is.
receiveLoop ==
    /\ pc = "receiveLoop"
    /\ \/ \* a byte is read and more are expected
          /\ loc.bytesRemaining - 1 > 0
          /\ \E byte \in RecvBytes, startTime \in TimeValues :
               /\ buf' = [buf EXCEPT ![1] = byte]
               /\ loc' = [loc EXCEPT !.bytesRemaining = @ - 1, !.startTime = startTime]
               /\ call' = [Hook(call, {"recvFrom", "getTime"}) EXCEPT !.read = Read(1, FALSE)]
               /\ UNCHANGED <<ctx, hist, pc>>
       \/ \* the last byte is read
          /\ loc.bytesRemaining - 1 = 0
          /\ \E byte \in RecvBytes, loopIterTime \in TimeValues,
                validateStatus \in (IF ctx.validateServerAuth # NULL
                                    THEN ValidateAuthStatuses ELSE {"SntpSuccess"}) :
               EndOfIteration([buf EXCEPT ![1] = byte], "SntpSuccess",
                              loopIterTime, validateStatus,
                              [call EXCEPT !.read = Read(1, FALSE)])
       \/ \* nothing is read
          \E currentTime \in TimeValues, now \in TimeValues :
               IF Ge32(calculateElapsedTimeMs(currentTime, loc.startTime),
                       W(0, SNTP_RECV_POLLING_TIMEOUT_MS))
               THEN \E loopIterTime \in TimeValues :
                      EndOfIteration(buf, "SntpErrorNetworkFailure", loopIterTime,
                                     "SntpSuccess",
                                     [call EXCEPT !.read = Read(0, PollingTimedOut(now))])
               ELSE /\ call' = [Hook(call, {"recvFrom"})
                                  EXCEPT !.read = Read(0, PollingTimedOut(now))]
                    /\ UNCHANGED <<ctx, buf, hist, pc, loc>>
       \/ \* the read fails
          \E loopIterTime \in TimeValues :
               EndOfIteration(buf, "SntpErrorNetworkFailure", loopIterTime, "SntpSuccess",
                              [call EXCEPT !.read = Read(-1, FALSE)])
    /\ UNCHANGED serVars

EngineNext ==
    \/ Sntp_Init
    \/ Sntp_SendTimeRequest
    \/ sendSntpPacket
    \/ Sntp_ReceiveTimeResponse
    \/ receiveSntpResponse
    \/ receiveLoop

Next == EngineNext

Spec == Init /\ [][Next]_vars

(***************************************************************************)
(* The serializer round trip: a request time, a random number and a buffer *)
(* are given to Sntp_SerializeRequest, a server answers the request, and   *)
(* the answer is given to Sntp_DeserializeResponse with the request time   *)
(* the serializer wrote back.                                              *)
(***************************************************************************)
\* seconds on both sides of the era rollover and of the 2^30 and 2^31
\* second distances
SecondsValues ==
    { Zero32, W(0, 3), W(16384, 0), W(16384, 2), W(32768, 0),
      W(49152, 1), W(65535, 65534), UINT32_MAX }

FirstBytes == { 36, 100, 164, 228, 35, 28, 39, 124 }
Strata == { 0, 1, 16 }
RefIds ==
    { KOD_CODE_DENY_UINT_VALUE, KOD_CODE_RSTR_UINT_VALUE, KOD_CODE_RATE_UINT_VALUE,
      W(16706, 17220), Zero32, W(22862, 17732) }

\* what the server does to the timestamp it echoes: nothing, or the flip
\* of one bit <<offset of the byte, value of the bit>>
OriginFlips == { <<>>, <<24, 128>>, <<27, 1>>, <<28, 128>>, <<31, 1>>, <<30, 16>> }

\* request buffers as the caller hands them over
RequestBuffers ==
    { [i \in 1..n |-> fill] : n \in {SNTP_PACKET_BASE_SIZE, SNTP_PACKET_BASE_SIZE + 2},
                              fill \in {0, 255} }

SerInput(T1, R, buffer, bufferSize, first, stratum, refId, flip, T2, T3, T4) ==
    [T1 |-> T1, R |-> R, buffer |-> buffer, bufferSize |-> bufferSize,
     first |-> first, stratum |-> stratum, refId |-> refId, flip |-> flip,
     T2 |-> T2, T3 |-> T3, T4 |-> T4]

ZeroBuffer == [i \in 1..SNTP_PACKET_BASE_SIZE |-> 0]

\* inputs that vary the four timestamps of an accepted response
TimingInputs ==
    { SerInput(Timestamp(s1, Zero32), Zero32, ZeroBuffer, SNTP_PACKET_BASE_SIZE,
               first, 1, Zero32, <<>>,
               Timestamp(s2, Zero32), Timestamp(s3, W(1, 2)), Timestamp(s4, Zero32)) :
        s1 \in SecondsValues, s2 \in SecondsValues, s3 \in SecondsValues,
        s4 \in SecondsValues, first \in {36, 228} }

RequestTimes ==
    { Timestamp(W(0, 3000), W(0, 1000)), Timestamp(UINT32_MAX, UINT32_MAX),
      Timestamp(W(258, 772), W(1286, 1800)) }

\* inputs that vary the request, with the response of a server in time
RequestInputs ==
    { SerInput(T1, R, b, sz, 36, 1, Zero32, <<>>,
               Timestamp(Add32(T1.seconds, W(0, 2)), Zero32),
               Timestamp(Add32(T1.seconds, W(0, 4)), W(4660, 22136)),
               Timestamp(Add32(T1.seconds, W(0, 6)), Zero32)) :
        T1 \in RequestTimes, R \in {Zero32, W(43707, 52445), W(1, 65535)},
        b \in RequestBuffers, sz \in {SNTP_PACKET_BASE_SIZE - 1, SNTP_PACKET_BASE_SIZE,
                                      SNTP_PACKET_BASE_SIZE + 2} }

\* inputs that vary the header of the response and the timestamp it echoes
HeaderInputs ==
    { SerInput(T1, W(43707, 52445), ZeroBuffer, SNTP_PACKET_BASE_SIZE,
               first, sr[1], sr[2], flip,
               Timestamp(Add32(T1.seconds, W(0, 2)), Zero32),
               Timestamp(Add32(T1.seconds, W(0, 4)), W(4660, 22136)),
               Timestamp(Add32(T1.seconds, W(0, 6)), Zero32)) :
        T1 \in RequestTimes, first \in FirstBytes,
        sr \in ({0} \X RefIds) \cup ({1, 16} \X {Zero32}), flip \in OriginFlips }

\* seconds of a path delay and of the processing time of a server
Delays == { 0, 1, 2, 5 }
ProcessingTimes == { 0, 1, 2, 3, 8 }
SymmetricStarts == { W(0, 3000), W(32767, 65534), W(65535, 65530) }

\* inputs of a server whose clock agrees with the client's: the request
\* takes delay seconds, the server time seconds, the response delay seconds
SymmetricInputs ==
    { SerInput(Timestamp(s1, W(0, 1000)), W(43707, 52445), ZeroBuffer,
               SNTP_PACKET_BASE_SIZE, 36, 1, Zero32, <<>>,
               Timestamp(Add32(s1, W(0, delay)), Zero32),
               Timestamp(Add32(s1, W(0, delay + time)), W(4660, 22136)),
               Timestamp(Add32(s1, W(0, delay + time + delay)), Zero32)) :
        s1 \in SymmetricStarts, delay \in Delays, time \in ProcessingTimes }

FractionSeconds == { W(0, 3), W(16384, 2), UINT32_MAX }
FractionValues == { Zero32, W(32768, 0), UINT32_MAX }

\* inputs that vary the fractions of the timestamps of the server and of
\* the time of reception
FractionInputs ==
    { SerInput(Timestamp(s1, Zero32), Zero32, ZeroBuffer, SNTP_PACKET_BASE_SIZE,
               36, 1, Zero32, <<>>,
               Timestamp(s2, f2), Timestamp(s3, f3), Timestamp(s4, f4)) :
        s1 \in {W(0, 3)}, s2 \in FractionSeconds, s3 \in FractionSeconds,
        s4 \in FractionSeconds, f2 \in FractionValues, f3 \in FractionValues,
        f4 \in FractionValues }

SerInputs ==
    TimingInputs \cup HeaderInputs \cup SymmetricInputs \cup FractionInputs
        \cup { i \in RequestInputs : i.bufferSize <= Len(i.buffer) }

\* the engine is not started
EngineOff ==
    /\ ctx = InitContext(CHOOSE a \in ValidInitArgs : TRUE)
    /\ buf = <<>>
    /\ pc = "off"
    /\ loc = NoLocals
    /\ call = NoCall
    /\ hist = NoHistory

SerInit ==
    /\ EngineOff
    /\ serPc = "input"
    /\ serIn \in SerInputs
    /\ serReq = <<>>
    /\ serResp = <<>>
    /\ serOut = <<>>

SerializeRequest ==
    /\ serPc = "input"
    /\ serReq' = Sntp_SerializeRequest(Ptr(serIn.T1), serIn.R, serIn.buffer, serIn.bufferSize)
    /\ serPc' = "serialized"
    /\ UNCHANGED <<serIn, serResp, serOut, engineVars>>

FlipBit(byte, bit) == IF (byte \div bit) % 2 = 1 THEN byte - bit ELSE byte + bit

\* The server copies the transmit timestamp of the request into the
\* originate timestamp of its response, bit flips apart.
ServerResponds ==
    /\ serPc = "serialized"
    /\ serReq.status = "SntpSuccess"
    /\ LET request == serReq.buffer
           p == MakePacket(serIn.first, serIn.stratum, serIn.refId,
                           Timestamp(Zero32, Zero32), serIn.T2, serIn.T3)
           echoed == [i \in 1..SNTP_PACKET_BASE_SIZE |->
                         IF i > OFF_originTime /\ i <= OFF_originTime + 8
                         THEN request[i + (OFF_transmitTime - OFF_originTime)]
                         ELSE p[i]]
       IN  serResp' = IF serIn.flip = <<>> THEN echoed
                      ELSE [echoed EXCEPT ![serIn.flip[1] + 1] = FlipBit(@, serIn.flip[2])]
    /\ serPc' = "responded"
    /\ UNCHANGED <<serIn, serReq, serOut, engineVars>>

DeserializeResponse ==
    /\ serPc = "responded"
    /\ serOut' = Sntp_DeserializeResponse(serReq.reqTime, Ptr(serIn.T4), serResp,
                                          Len(serResp), Ptr("uninitialized"))
    /\ serPc' = "deserialized"
    /\ UNCHANGED <<serIn, serReq, serResp, engineVars>>

SerNext ==
    \/ SerializeRequest
    \/ ServerResponds
    \/ DeserializeResponse

SerSpec == SerInit /\ [][SerNext]_vars

\* the engine and the serializer round trip, each from its initial states
AllInit == Init \/ SerInit
AllNext == EngineNext \/ SerNext
AllSpec == AllInit /\ [][AllNext]_vars

(***************************************************************************)
(* The utilities of the serializer: Sntp_CalculatePollInterval and         *)
(* Sntp_ConvertToUnixTime, each applied to the arguments of one call.      *)
(***************************************************************************)
\* the conversion of an argument to a uint16_t parameter
Uint16(x) == x % Half
\* the conversion to uint8_t
Uint8(x) == x % 256

\* the while loop of Sntp_CalculatePollInterval: one increment of
\* log2PollInterval for each halving of exactIntervalForAccuracy
RECURSIVE HighestBitLoop(_, _)
HighestBitLoop(exactIntervalForAccuracy, log2PollInterval) ==
    IF exactIntervalForAccuracy # 0
    THEN HighestBitLoop(exactIntervalForAccuracy \div 2, Uint8(log2PollInterval + 1))
    ELSE log2PollInterval

\* ( uint32_t ) 1U << n, for the n < 31 the loop can give
ShiftLeftOne(n) == 2 ^ n

\* The result of the decrement and of the shift for the interval the
\* division gave
PollIntervalOf(exactIntervalForAccuracy, pPollInterval) ==
    IF exactIntervalForAccuracy = 0
    THEN [status |-> "SntpZeroPollInterval", pPollInterval |-> pPollInterval]
    ELSE [status |-> "SntpSuccess",
          pPollInterval |->
              Ptr(ShiftLeftOne(Uint8(HighestBitLoop(exactIntervalForAccuracy, 0) - 1)))]

\* Sntp_CalculatePollInterval without the decrement of log2PollInterval
Sntp_CalculatePollInterval_NoDecrement(clockFreqTolerance, desiredAccuracy, pPollInterval) ==
    IF clockFreqTolerance = 0 \/ desiredAccuracy = 0 \/ pPollInterval = NULL
    THEN [status |-> "SntpErrorBadParameter", pPollInterval |-> pPollInterval]
    ELSE IF (desiredAccuracy * 1000) \div clockFreqTolerance = 0
    THEN [status |-> "SntpZeroPollInterval", pPollInterval |-> pPollInterval]
    ELSE [status |-> "SntpSuccess",
          pPollInterval |->
              Ptr(ShiftLeftOne(HighestBitLoop((desiredAccuracy * 1000) \div clockFreqTolerance, 0)))]

\* Sntp_CalculatePollInterval with an accuracy in microseconds
Sntp_CalculatePollInterval_Microseconds(clockFreqTolerance, desiredAccuracy, pPollInterval) ==
    IF clockFreqTolerance = 0 \/ desiredAccuracy = 0 \/ pPollInterval = NULL
    THEN [status |-> "SntpErrorBadParameter", pPollInterval |-> pPollInterval]
    ELSE PollIntervalOf(desiredAccuracy \div clockFreqTolerance, pPollInterval)

\* The two inputs are uint16_t, so that desiredAccuracy * 1000 is below
\* 2^26 and the multiplication in uint32_t does not wrap.  The result is
\* the status and what pPollInterval points to after the call.
Sntp_CalculatePollInterval(clockFreqTolerance, desiredAccuracy, pPollInterval) ==
    IF clockFreqTolerance = 0 \/ desiredAccuracy = 0 \/ pPollInterval = NULL
    THEN [status |-> "SntpErrorBadParameter", pPollInterval |-> pPollInterval]
    ELSE PollIntervalOf((desiredAccuracy * 1000) \div clockFreqTolerance, pPollInterval)

SNTP_TIME_AT_UNIX_EPOCH_SECS == W(33706, 32384)
SNTP_TIME_AT_LARGEST_UNIX_TIME_SECS == W(938, 32383)
UNIX_TIME_SECS_AT_SNTP_ERA_1_SMALLEST_TIME == W(31829, 33152)

\* x / d in uint32_t for a d below 2^15, by long division on the halves
Div32(a, d) ==
    LET q == (Hi(a) \div d) * Half + ((Hi(a) % d) * Half + Lo(a)) \div d
    IN  W(q \div Half, q % Half)

\* Sntp_ConvertToUnixTime with >= for > in the test of the largest time
Sntp_ConvertToUnixTime_Exclusive(pSntpTime, pUnixTimeSecs, pUnixTimeMicrosecs) ==
    IF pSntpTime = NULL \/ pUnixTimeSecs = NULL \/ pUnixTimeMicrosecs = NULL
    THEN [status |-> "SntpErrorBadParameter",
          pUnixTimeSecs |-> pUnixTimeSecs, pUnixTimeMicrosecs |-> pUnixTimeMicrosecs]
    ELSE IF /\ Ge32(Deref(pSntpTime).seconds, SNTP_TIME_AT_LARGEST_UNIX_TIME_SECS)
            /\ ~Ge32(Deref(pSntpTime).seconds, SNTP_TIME_AT_UNIX_EPOCH_SECS)
    THEN [status |-> "SntpErrorTimeNotSupported",
          pUnixTimeSecs |-> pUnixTimeSecs, pUnixTimeMicrosecs |-> pUnixTimeMicrosecs]
    ELSE [status |-> "SntpSuccess",
          pUnixTimeSecs |->
              IF Ge32(SNTP_TIME_AT_LARGEST_UNIX_TIME_SECS, Deref(pSntpTime).seconds)
              THEN Ptr(Add32(UNIX_TIME_SECS_AT_SNTP_ERA_1_SMALLEST_TIME,
                             Deref(pSntpTime).seconds))
              ELSE Ptr(Sub32(Deref(pSntpTime).seconds, SNTP_TIME_AT_UNIX_EPOCH_SECS)),
          pUnixTimeMicrosecs |->
              Ptr(Div32(Deref(pSntpTime).fractions, SNTP_FRACTION_VALUE_PER_MICROSECOND))]

\* The result is the status and what the two output pointers point to
\* after the call.
Sntp_ConvertToUnixTime(pSntpTime, pUnixTimeSecs, pUnixTimeMicrosecs) ==
    IF pSntpTime = NULL \/ pUnixTimeSecs = NULL \/ pUnixTimeMicrosecs = NULL
    THEN [status |-> "SntpErrorBadParameter",
          pUnixTimeSecs |-> pUnixTimeSecs, pUnixTimeMicrosecs |-> pUnixTimeMicrosecs]
    ELSE IF /\ Gt32(Deref(pSntpTime).seconds, SNTP_TIME_AT_LARGEST_UNIX_TIME_SECS)
            /\ ~Ge32(Deref(pSntpTime).seconds, SNTP_TIME_AT_UNIX_EPOCH_SECS)
    THEN [status |-> "SntpErrorTimeNotSupported",
          pUnixTimeSecs |-> pUnixTimeSecs, pUnixTimeMicrosecs |-> pUnixTimeMicrosecs]
    ELSE [status |-> "SntpSuccess",
          pUnixTimeSecs |->
              IF Ge32(SNTP_TIME_AT_LARGEST_UNIX_TIME_SECS, Deref(pSntpTime).seconds)
              THEN Ptr(Add32(UNIX_TIME_SECS_AT_SNTP_ERA_1_SMALLEST_TIME,
                             Deref(pSntpTime).seconds))
              ELSE Ptr(Sub32(Deref(pSntpTime).seconds, SNTP_TIME_AT_UNIX_EPOCH_SECS)),
          pUnixTimeMicrosecs |->
              Ptr(Div32(Deref(pSntpTime).fractions, SNTP_FRACTION_VALUE_PER_MICROSECOND))]

\* the arguments a caller writes for the uint16_t parameters; the output
\* variable holds 7 before the call
Tolerances == { 0, 1, 2, 3, 7, 200, 500, 1000, 1001, 16960, 32768, 65535, 1000000 }
Accuracies == { 0, 1, 2, 3, 16, 17, 500, 1000, 8192, 60000, 65535 }

PollInputs ==
    [clockFreqTolerance : Tolerances, desiredAccuracy : Accuracies,
     pPollInterval : {Ptr(7)}]
        \cup [clockFreqTolerance : {0, 200}, desiredAccuracy : {0, 60000},
              pPollInterval : {NULL}]

\* the output variables hold 7 before the call
UnixSeconds ==
    { Zero32, One32, W(0, 65535), W(1, 0), W(938, 32382),
      SNTP_TIME_AT_LARGEST_UNIX_TIME_SECS, W(938, 32384), W(32768, 0),
      W(33706, 32383), SNTP_TIME_AT_UNIX_EPOCH_SECS, W(33706, 32385),
      W(33707, 0), W(58000, 1234), W(65535, 65534), UINT32_MAX }
UnixFractions ==
    { Zero32, W(0, 4294), W(0, 4295), W(0, 8589), W(0, 65535), W(1, 0),
      W(32768, 0), W(65535, 61001), UINT32_MAX }

UnixInputs ==
    [pSntpTime : { Ptr(Timestamp(s, f)) : s \in UnixSeconds, f \in UnixFractions },
     pUnixTimeSecs : {Ptr(W(0, 7))}, pUnixTimeMicrosecs : {Ptr(W(0, 7))}]
        \cup { [pSntpTime |-> NULL, pUnixTimeSecs |-> Ptr(W(0, 7)),
                pUnixTimeMicrosecs |-> Ptr(W(0, 7))],
               [pSntpTime |-> Ptr(Timestamp(Zero32, Zero32)), pUnixTimeSecs |-> NULL,
                pUnixTimeMicrosecs |-> Ptr(W(0, 7))],
               [pSntpTime |-> Ptr(Timestamp(Zero32, Zero32)),
                pUnixTimeSecs |-> Ptr(W(0, 7)), pUnixTimeMicrosecs |-> NULL] }

UtilInit ==
    /\ EngineOff
    /\ \/ serPc = "poll" /\ serIn \in PollInputs
       \/ serPc = "unix" /\ serIn \in UnixInputs
    /\ serReq = <<>>
    /\ serResp = <<>>
    /\ serOut = <<>>

CalculatePollInterval ==
    /\ serPc = "poll"
    /\ serOut' = Sntp_CalculatePollInterval(Uint16(serIn.clockFreqTolerance),
                                            Uint16(serIn.desiredAccuracy),
                                            serIn.pPollInterval)
    /\ serPc' = "polled"
    /\ UNCHANGED <<serIn, serReq, serResp, engineVars>>

ConvertToUnixTime ==
    /\ serPc = "unix"
    /\ serOut' = Sntp_ConvertToUnixTime(serIn.pSntpTime, serIn.pUnixTimeSecs,
                                        serIn.pUnixTimeMicrosecs)
    /\ serPc' = "converted"
    /\ UNCHANGED <<serIn, serReq, serResp, engineVars>>

UtilNext ==
    \/ CalculatePollInterval
    \/ ConvertToUnixTime

UtilSpec == UtilInit /\ [][UtilNext]_vars

(***************************************************************************)
(* Properties of the client engine.                                        *)
(***************************************************************************)
Exhausted == ctx.currentServerIndex = ctx.numOfServers
Completed(op) == call.op = op /\ call.status # "pending"
InitSucceeded == call.op = "Sntp_Init" /\ call.status = "SntpSuccess"

C1_Range == ctx.currentServerIndex >= 0 /\ ctx.currentServerIndex <= ctx.numOfServers
C1_Step ==
    \/ ctx'.currentServerIndex >= ctx.currentServerIndex
    \/ InitSucceeded' /\ ctx'.currentServerIndex = 0

\* C1: in every state reached by Sntp_SendTimeRequest and
\* Sntp_ReceiveTimeResponse calls after a successful Sntp_Init, whatever the
\* hooks return, 0 <= currentServerIndex <= numOfServers; and from a state
\* to the next currentServerIndex does not decrease, except that a
\* successful Sntp_Init sets it to 0.
C1_IndexBounded == [](C1_Range) /\ [][C1_Step]_vars

\* both servers have rejected a request, one after the other
C1_Witness ==
    /\ Completed("Sntp_ReceiveTimeResponse")
    /\ ctx.numOfServers = MaxServers
    /\ ctx.currentServerIndex = MaxServers
    /\ call.index0 = MaxServers - 1

KissOfDeath(status) ==
    \/ status = "SntpRejectedResponseChangeServer"
    \/ status = "SntpRejectedResponseRetryWithBackoff"
    \/ status = "SntpRejectedResponseOtherCode"

AuthPassed == ctx.validateServerAuth = NULL \/ call.authStatus = "SntpSuccess"

\* the call received a whole response, its authentication (if any)
\* succeeded and Sntp_DeserializeResponse reported a Kiss-o'-Death
RejectedByServer == call.rxComplete /\ AuthPassed /\ KissOfDeath(call.dsStatus)

\* C2: a Sntp_ReceiveTimeResponse call increments currentServerIndex by
\* one and returns SntpRejectedResponse exactly when it received a complete
\* response, authentication (when configured) succeeded and
\* Sntp_DeserializeResponse returned one of the three Kiss-o'-Death
\* statuses; every other call leaves currentServerIndex as it was and
\* returns another status.  currentServerIndex is the number of calls that
\* returned SntpRejectedResponse since Sntp_Init.
C2_RejectionAdvances ==
    /\ call.op = "Sntp_ReceiveTimeResponse" /\ call.status = "pending"
         => ctx.currentServerIndex = call.index0
    /\ Completed("Sntp_ReceiveTimeResponse") =>
         IF RejectedByServer
         THEN /\ ctx.currentServerIndex = call.index0 + 1
              /\ call.status = "SntpRejectedResponse"
         ELSE /\ ctx.currentServerIndex = call.index0
              /\ call.status # "SntpRejectedResponse"
    /\ hist.rejected = ctx.currentServerIndex

\* an authenticated response that is a Kiss-o'-Death
C2_Witness ==
    /\ Completed("Sntp_ReceiveTimeResponse")
    /\ RejectedByServer
    /\ call.authStatus = "SntpSuccess"
    /\ call.status = "SntpRejectedResponse"
    /\ hist.rejected = 1

EngineCall(c) ==
    /\ c.op \in {"Sntp_SendTimeRequest", "Sntp_ReceiveTimeResponse"}
    /\ c.pContext # NULL

C3_Step ==
    Exhausted =>
        /\ pc = "idle"
        /\ EngineCall(call') =>
             /\ call'.status = "SntpErrorChangeServer"
             /\ call'.hooks = {}
             /\ call'.setTimeCalls = <<>>
             /\ ctx' = ctx
             /\ buf' = buf
             /\ pc' = "idle"
        /\ \/ Exhausted'
           \/ InitSucceeded' /\ ctx'.currentServerIndex = 0

\* C3: once currentServerIndex = numOfServers, every Sntp_SendTimeRequest
\* and Sntp_ReceiveTimeResponse call on the context returns
\* SntpErrorChangeServer, calls no hook and leaves the context and the
\* network buffer as they were; the context stays exhausted until a
\* Sntp_Init sets currentServerIndex to 0.
C3_ExhaustedIsAbsorbing == [][C3_Step]_vars

\* a receive call on an exhausted context has returned
C3_Witness ==
    /\ Exhausted
    /\ call.op = "Sntp_ReceiveTimeResponse"
    /\ call.pContext # NULL
    /\ call.status = "SntpErrorChangeServer"
    /\ call.index0 = ctx.numOfServers

BigEndian(w) == <<Hi(w) \div 256, Hi(w) % 256, Lo(w) \div 256, Lo(w) % 256>>
Bytes(b, off, n) == [i \in 1..n |-> b[off + i]]
Mode(b) == b[1] % 8

\* the originate timestamp of packet b is not the time t, bit for bit
OriginDiffers(b, t) ==
    \/ Bytes(b, 24, 4) # BigEndian(t.seconds)
    \/ Bytes(b, 28, 4) # BigEndian(t.fractions)

\* the round trip ended with a server response that does not echo the request
ReplayDeserialized ==
    /\ serPc = "deserialized"
    /\ Len(serResp) = 48
    /\ Mode(serResp) = 4
    /\ OriginDiffers(serResp, Deref(serReq.reqTime))

\* a receive call processed a complete response that does not echo the request
ReplayReceived ==
    /\ Completed("Sntp_ReceiveTimeResponse")
    /\ call.rxComplete
    /\ Mode(buf) = 4
    /\ OriginDiffers(buf, ctx.lastRequestTime)

C4_SetTimeAndIndexUntouched ==
    /\ call.setTimeCalls = <<>>
    /\ ctx.currentServerIndex = call.index0

FromDeserializer(args) ==
    \E rxTime \in TimeValues :
        LET ds == Sntp_DeserializeResponse(Ptr(ctx.lastRequestTime), Ptr(rxTime), buf,
                                           ctx.sntpPacketSize, Ptr("uninitialized"))
        IN  /\ ds.status = call.dsStatus
            /\ args.pServerTime = Deref(ds.parsed).serverTime
            /\ args.clockOffsetSec = Deref(ds.parsed).clockOffsetSec
            /\ args.leapSecondInfo = Deref(ds.parsed).leapSecondType

TimeReceived ==
    /\ call.rxComplete
    /\ AuthPassed
    /\ call.dsStatus \in {"SntpSuccess", "SntpClockOffsetOverflow"}

\* C5: a Sntp_ReceiveTimeResponse call invokes setTime once if it received
\* a complete response, authentication (when configured) succeeded and
\* Sntp_DeserializeResponse returned SntpSuccess or SntpClockOffsetOverflow,
\* and never otherwise; setTime is given the server at currentServerIndex
\* and the serverTime, clockOffsetSec and leapSecondType of the
\* deserializer.  Sntp_Init and Sntp_SendTimeRequest never invoke setTime.
C5_SetTimeOnceOnTime ==
    /\ call.op # "Sntp_ReceiveTimeResponse" \/ call.status = "pending"
         => call.setTimeCalls = <<>> /\ "setTime" \notin call.hooks
    /\ Completed("Sntp_ReceiveTimeResponse") =>
         IF TimeReceived
         THEN /\ Len(call.setTimeCalls) = 1
              /\ "setTime" \in call.hooks
              /\ call.setTimeCalls[1].pTimeServer = ctx.currentServerIndex
              /\ FromDeserializer(call.setTimeCalls[1])
         ELSE /\ call.setTimeCalls = <<>>
              /\ "setTime" \notin call.hooks

\* setTime was called once with a computed clock offset and a leap second
C5_Witness ==
    /\ Completed("Sntp_ReceiveTimeResponse")
    /\ TimeReceived
    /\ Len(call.setTimeCalls) = 1
    /\ call.setTimeCalls[1].clockOffsetSec = 536870915
    /\ call.setTimeCalls[1].leapSecondInfo = "LastMinuteHas61Seconds"
    /\ call.setTimeCalls[1].pServerTime = Timestamp(W(16384, 0), W(0, 9))

OffsetOverflowReceived ==
    /\ Completed("Sntp_ReceiveTimeResponse")
    /\ call.dsStatus = "SntpClockOffsetOverflow"

\* C6 as the specification states it: when Sntp_DeserializeResponse returns
\* SntpClockOffsetOverflow, Sntp_ReceiveTimeResponse returns
\* SntpClockOffsetOverflow and invokes setTime.
C6_AsStated ==
    OffsetOverflowReceived =>
        /\ call.status = "SntpClockOffsetOverflow"
        /\ Len(call.setTimeCalls) = 1

\* C6, amended: when Sntp_DeserializeResponse returns
\* SntpClockOffsetOverflow, Sntp_ReceiveTimeResponse invokes setTime, with
\* the clock offset SNTP_CLOCK_OFFSET_OVERFLOW, and returns SntpSuccess.
C6_OverflowIsSuccess ==
    OffsetOverflowReceived =>
        /\ call.status = "SntpSuccess"
        /\ Len(call.setTimeCalls) = 1
        /\ call.setTimeCalls[1].clockOffsetSec = SNTP_CLOCK_OFFSET_OVERFLOW

C6_Witness ==
    /\ OffsetOverflowReceived
    /\ call.status = "SntpSuccess"
    /\ "setTime" \in call.hooks

(***************************************************************************)
(* Properties of the serializer.                                           *)
(***************************************************************************)
\* the round trip ended with a response of a server (mode 4, stratum not 0)
\* whose originate timestamp is bytes 40..47 of the serialized request
EchoDeserialized ==
    /\ serPc = "deserialized"
    /\ Mode(serResp) = 4
    /\ serResp[2] # 0
    /\ Bytes(serResp, 24, 8) = Bytes(serReq.buffer, 40, 8)

\* d(a, b): the shortest signed distance from b to a modulo 2^32
d(a, b) == ToInt32(Sub32(a.seconds, b.seconds))

\* |x| < 2^30
Near(x) == x > -1073741824 /\ x < 1073741824

\* q is n / 2 truncated toward zero
IsHalfTowardZero(q, n) ==
    \/ 2 * q = n
    \/ n > 0 /\ 2 * q = n - 1
    \/ n < 0 /\ 2 * q = n + 1

\* C7: for an accepted response with |d(T2,T1)| < 2^30 and
\* |d(T3,T4)| < 2^30, where T1 is the request time, T2 and T3 the receive
\* and transmit timestamps of the response and T4 the time of reception,
\* Sntp_DeserializeResponse returns SntpSuccess with clockOffsetSec =
\* (d(T2,T1) + d(T3,T4)) / 2 truncated toward zero, also when the
\* timestamps lie on both sides of the era rollover.
C7_ClockOffset ==
    LET send == d(serIn.T2, Deref(serReq.reqTime))
        recv == d(serIn.T3, serIn.T4)
    IN  EchoDeserialized /\ Near(send) /\ Near(recv) =>
            /\ serOut.status = "SntpSuccess"
            /\ IsHalfTowardZero(Deref(serOut.parsed).clockOffsetSec, send + recv)

\* the request was sent just before the rollover, answered just after it,
\* by a server one second behind on the way back: the offset -1 / 2 is 0
C7_Witness ==
    /\ EchoDeserialized
    /\ Deref(serReq.reqTime).seconds = UINT32_MAX
    /\ serIn.T2.seconds = Zero32
    /\ serIn.T3.seconds = W(65535, 65534)
    /\ serIn.T4.seconds = Zero32
    /\ serOut.status = "SntpSuccess"
    /\ Deref(serOut.parsed).clockOffsetSec = 0

LeapSecondOf(first) ==
    CASE first \div 64 = 0 -> "NoLeapSecond"
      [] first \div 64 = 1 -> "LastMinuteHas61Seconds"
      [] first \div 64 = 2 -> "LastMinuteHas59Seconds"
      [] first \div 64 = 3 -> "AlarmServerNotSynchronized"

\* C8: for an accepted response in which d(T2,T1) and d(T3,T4) both have a
\* magnitude of 2^30 seconds or more, Sntp_DeserializeResponse returns
\* SntpClockOffsetOverflow with clockOffsetSec = SNTP_CLOCK_OFFSET_OVERFLOW
\* (0x7FFFFFFF), serverTime the transmit timestamp, leapSecondType the leap
\* indicator and rejectedResponseCode 0.
C8_OverflowSentinel ==
    LET send == d(serIn.T2, Deref(serReq.reqTime))
        recv == d(serIn.T3, serIn.T4)
        parsed == Deref(serOut.parsed)
    IN  EchoDeserialized /\ ~Near(send) /\ ~Near(recv) =>
            /\ serOut.status = "SntpClockOffsetOverflow"
            /\ parsed.clockOffsetSec = 2147483647
            /\ parsed.serverTime = serIn.T3
            /\ parsed.leapSecondType = LeapSecondOf(serResp[1])
            /\ parsed.rejectedResponseCode = Zero32

\* the server is 2^30 seconds ahead on the way out, 2^31 on the way back
C8_Witness ==
    /\ EchoDeserialized
    /\ d(serIn.T2, Deref(serReq.reqTime)) = 1073741824
    /\ serIn.T3.seconds = W(32768, 0)
    /\ serIn.T4.seconds = Zero32
    /\ serResp[1] = 228
    /\ serOut.status = "SntpClockOffsetOverflow"
    /\ Deref(serOut.parsed).leapSecondType = "AlarmServerNotSynchronized"

Bit(x, k) == (x \div (2 ^ k)) % 2

\* w = a | (r >> 16)
IsOrOfShifted(w, a, r) ==
    /\ Hi(w) = Hi(a)
    /\ Lo(w) \in 0..65535
    /\ \A k \in 0..15 : Bit(Lo(w), k) = 1 <=> (Bit(Lo(a), k) = 1 \/ Bit(Hi(r), k) = 1)

Serialized == serPc # "input" /\ serReq.status = "SntpSuccess"

\* C9: a successful Sntp_SerializeRequest of the time T with the random
\* number R, in a buffer of 48 bytes or more, leaves byte 0 = 0x23, bytes
\* 1..39 = 0, bytes 40..43 = T.seconds and bytes 44..47 =
\* T.fractions | (R >> 16), both most significant byte first; the request
\* time becomes (T.seconds, T.fractions | (R >> 16)); the bytes at offset
\* 48 and beyond are as they were.
C9_RequestLayout ==
    Serialized =>
        LET b == serReq.buffer
            t == Deref(serReq.reqTime)
        IN  /\ serIn.bufferSize >= 48
            /\ Len(b) = Len(serIn.buffer)
            /\ b[1] = 35
            /\ \A i \in 2..40 : b[i] = 0
            /\ t.seconds = serIn.T1.seconds
            /\ IsOrOfShifted(t.fractions, serIn.T1.fractions, serIn.R)
            /\ Bytes(b, 40, 4) = BigEndian(t.seconds)
            /\ Bytes(b, 44, 4) = BigEndian(t.fractions)
            /\ \A i \in 49..Len(b) : b[i] = serIn.buffer[i]

\* a request in a buffer of 50 bytes, each 0xFF, with random bits that
\* change the fractions
C9_Witness ==
    /\ Serialized
    /\ Len(serReq.buffer) = 50
    /\ serIn.buffer[1] = 255
    /\ serReq.buffer[50] = 255
    /\ serIn.T1 = Timestamp(W(258, 772), W(1286, 1800))
    /\ serIn.R = W(43707, 52445)
    /\ Deref(serReq.reqTime).fractions = W(1286, 44987)

\* C10: a response of mode 4 and stratum other than 0 whose originate
\* timestamp is bytes 40..47 of the request Sntp_SerializeRequest wrote for
\* T1 and R is not SntpInvalidResponse for Sntp_DeserializeResponse called
\* with the request time Sntp_SerializeRequest wrote back: the status is
\* SntpSuccess or SntpClockOffsetOverflow.
C10_RoundTrip ==
    EchoDeserialized =>
        serOut.status \in {"SntpSuccess", "SntpClockOffsetOverflow"}

\* the echo of a request whose fractions the random number changed
C10_Witness ==
    /\ EchoDeserialized
    /\ serIn.R = W(43707, 52445)
    /\ serIn.T1 = Timestamp(W(0, 3000), W(0, 1000))
    /\ Deref(serReq.reqTime) = Timestamp(W(0, 3000), W(0, 44027))
    /\ serOut.status = "SntpSuccess"

(***************************************************************************)
(* More properties of the client engine.                                   *)
(***************************************************************************)
SendSucceeded == Completed("Sntp_SendTimeRequest") /\ call.status = "SntpSuccess"

\* C11: after every Sntp_SendTimeRequest call that returns SntpSuccess,
\* lastRequestTime is the Transmit timestamp that bytes 40..47 of the
\* network buffer hold most significant byte first: its seconds are the
\* seconds the get-time hook returned and its fractions are the fractions
\* the hook returned | (randomNumber >> 16).
C11_LastRequestTimeIsTransmit ==
    SendSucceeded =>
        /\ Bytes(buf, 40, 4) = BigEndian(ctx.lastRequestTime.seconds)
        /\ Bytes(buf, 44, 4) = BigEndian(ctx.lastRequestTime.fractions)
        /\ ctx.lastRequestTime.seconds = Deref(call.requestTime).seconds
        /\ IsOrOfShifted(ctx.lastRequestTime.fractions,
                         Deref(call.requestTime).fractions, Deref(call.randomNumber))

\* a request with authentication data whose fractions
\* the random number changed
C11_Witness ==
    /\ SendSucceeded
    /\ "generateClientAuth" \in call.hooks
    /\ ctx.sntpPacketSize = SNTP_PACKET_BASE_SIZE + MaxAuthSize
    /\ Deref(call.requestTime) = Timestamp(One32, W(0, 3))
    /\ Deref(call.randomNumber) = W(43707, 52445)
    /\ ctx.lastRequestTime = Timestamp(One32, W(0, 43707))

(***************************************************************************)
(* More properties of the serializer.                                      *)
(***************************************************************************)
\* Sntp_DeserializeResponse was given a response of mode 4 whose originate
\* timestamp is the request time
Echoed ==
    /\ serPc = "deserialized"
    /\ Mode(serResp) = 4
    /\ ~OriginDiffers(serResp, Deref(serReq.reqTime))

\* C12: for every response with mode 4, the originate timestamp echoed and
\* stratum 0, Sntp_DeserializeResponse sets rejectedResponseCode to bytes
\* 12..15 read most significant byte first, sets every other output field
\* to zero, and returns SntpRejectedResponseChangeServer for the codes
\* "DENY" and "RSTR", SntpRejectedResponseRetryWithBackoff for "RATE" and
\* SntpRejectedResponseOtherCode for every other code.
C12_KissOfDeathCodes ==
    (Echoed /\ serResp[2] = 0) =>
        LET code == Bytes(serResp, 12, 4)
            parsed == Deref(serOut.parsed)
        IN  /\ BigEndian(parsed.rejectedResponseCode) = code
            /\ parsed.serverTime = Timestamp(Zero32, Zero32)
            /\ parsed.clockOffsetSec = 0
            /\ parsed.leapSecondType = "NoLeapSecond"
            /\ serOut.status =
                  IF code = <<68, 69, 78, 89>> \/ code = <<82, 83, 84, 82>>
                  THEN "SntpRejectedResponseChangeServer"
                  ELSE IF code = <<82, 65, 84, 69>>
                  THEN "SntpRejectedResponseRetryWithBackoff"
                  ELSE "SntpRejectedResponseOtherCode"

\* the code "RSTR" in a packet whose leap indicator is 3 and whose
\* timestamps are not zero
C12_Witness ==
    /\ Echoed
    /\ serResp[2] = 0
    /\ serResp[1] = 228
    /\ Bytes(serResp, 12, 4) = <<82, 83, 84, 82>>
    /\ Bytes(serResp, 44, 4) # <<0, 0, 0, 0>>
    /\ serOut.status = "SntpRejectedResponseChangeServer"
    /\ Deref(serOut.parsed).rejectedResponseCode = KOD_CODE_RSTR_UINT_VALUE

\* C13: for every response of 48 bytes or more whose mode bits (byte 0 &
\* 0x07) are not 4, Sntp_DeserializeResponse returns SntpInvalidResponse
\* whatever the stratum, the reference ID and the timestamps are, and
\* leaves the caller's parsed response as it was.
C13_ModeValidation ==
    (serPc = "deserialized" /\ Len(serResp) >= 48 /\ Mode(serResp) # 4) =>
        /\ serOut.status = "SntpInvalidResponse"
        /\ serOut.parsed = Ptr("uninitialized")

\* a client mode packet that is otherwise an accepted response: the
\* originate timestamp is the request time and the stratum is 1
C13_Witness ==
    /\ serPc = "deserialized"
    /\ serResp[1] = 35
    /\ serResp[2] = 1
    /\ ~OriginDiffers(serResp, Deref(serReq.reqTime))
    /\ serOut.status = "SntpInvalidResponse"

\* C14: for every response with mode 4, the originate timestamp echoed and
\* a stratum other than 0, Sntp_DeserializeResponse sets
\* rejectedResponseCode to 0, serverTime to the Transmit timestamp (bytes
\* 40..47) read most significant byte first, and leapSecondType to bits 7-6
\* of byte 0 mapped 0 -> NoLeapSecond, 1 -> LastMinuteHas61Seconds,
\* 2 -> LastMinuteHas59Seconds, 3 -> AlarmServerNotSynchronized, whatever
\* the version bits are.
C14_AcceptedResponse ==
    (Echoed /\ serResp[2] # 0) =>
        LET parsed == Deref(serOut.parsed)
        IN  /\ parsed.rejectedResponseCode = Zero32
            /\ BigEndian(parsed.serverTime.seconds) = Bytes(serResp, 40, 4)
            /\ BigEndian(parsed.serverTime.fractions) = Bytes(serResp, 44, 4)
            /\ parsed.leapSecondType = LeapSecondOf(serResp[1])

\* leap indicator 1 with the version bits all set, and a Transmit timestamp
\* of four different bytes
C14_Witness ==
    /\ Echoed
    /\ serResp[2] = 16
    /\ serResp[1] = 124
    /\ Bytes(serResp, 44, 4) = <<18, 52, 86, 120>>
    /\ Deref(serOut.parsed).leapSecondType = "LastMinuteHas61Seconds"
    /\ Deref(serOut.parsed).serverTime.fractions = W(4660, 22136)

(***************************************************************************)
(* Properties of the timeouts of Sntp_ReceiveTimeResponse.                 *)
(***************************************************************************)
\* the latest single byte read of the Sntp_ReceiveTimeResponse call
\* returned 0
PeekedNothing == call.op = "Sntp_ReceiveTimeResponse" /\ call.peek = Ptr(0)

\* the time between the reading of the clock after the latest single byte
\* read and the time of the request
SinceRequest == calculateElapsedTimeMs(Deref(call.loopIterTime), ctx.lastRequestTime)
\* the time between that reading and the one at the start of the call
SinceStart == calculateElapsedTimeMs(Deref(call.loopIterTime), Deref(call.poll).startTime)

\* C15: in Sntp_ReceiveTimeResponse, whenever a single byte read finds
\* nothing and the time from lastRequestTime to the reading of the clock
\* taken after that read is responseTimeoutMs or more, the call returns
\* SntpErrorResponseTimeout, whatever blockTimeMs is and whatever the time
\* read at the start of the call is.
C15_HardDeadline ==
    (PeekedNothing /\ Ge32(SinceRequest, ctx.responseTimeoutMs)) =>
        call.status = "SntpErrorResponseTimeout"

\* the deadline passes in a call that started after it: none of the block
\* time of the call is used
C15_Witness ==
    /\ PeekedNothing
    /\ call.status = "SntpErrorResponseTimeout"
    /\ ctx.lastRequestTime = Timestamp(Zero32, W(0, 43707))
    /\ Deref(call.loopIterTime) = Timestamp(One32, Zero32)
    /\ Deref(call.poll) = [blockTimeMs |-> W(0, 1000), startTime |-> Timestamp(One32, Zero32)]
    /\ SinceStart = Zero32
    /\ SinceRequest = W(0, 1000)

ResponseTimedOut == Ge32(SinceRequest, ctx.responseTimeoutMs)
BlockTimeUsed == Ge32(SinceStart, Deref(call.poll).blockTimeMs)

\* C16: a Sntp_ReceiveTimeResponse call makes a further single byte read
\* only after one that found nothing, and it returns
\* SntpNoResponseReceived exactly when the last of them found nothing
\* while the time since lastRequestTime was below responseTimeoutMs and
\* the time since the start of the call was blockTimeMs or more; while
\* nothing is read and both times are below their limits the call polls
\* again; when both limits are reached in the same iteration the call
\* returns SntpErrorResponseTimeout.
C16_NoResponseReceived ==
    call.op = "Sntp_ReceiveTimeResponse" =>
        /\ (pc = "receiveSntpResponse" /\ call.peek # NULL) => PeekedNothing
        /\ call.status = "SntpNoResponseReceived"
              <=> (PeekedNothing /\ ~ResponseTimedOut /\ BlockTimeUsed)
        /\ (PeekedNothing /\ ~ResponseTimedOut /\ ~BlockTimeUsed)
              => (call.status = "pending" /\ pc = "receiveSntpResponse")
        /\ (PeekedNothing /\ ResponseTimedOut /\ BlockTimeUsed)
              => call.status = "SntpErrorResponseTimeout"

\* a call that does not block returns at once, before the response timeout
C16_Witness ==
    /\ PeekedNothing
    /\ call.status = "SntpNoResponseReceived"
    /\ Deref(call.poll).blockTimeMs = Zero32
    /\ SinceStart = Zero32
    /\ SinceRequest = Zero32
    /\ ctx.responseTimeoutMs = W(0, 1000)

\* a recvFrom call of the Sntp_ReceiveTimeResponse call returned a negative
\* value, in the single byte read or in a later read
ReceiveFailed ==
    /\ call.op = "Sntp_ReceiveTimeResponse"
    /\ \/ call.peek = Ptr(-1)
       \/ call.read # NULL /\ Deref(call.read).bytesRead = -1

\* C17: whenever recvFrom returns a negative value during
\* Sntp_ReceiveTimeResponse, in the single byte read or in a later read,
\* the call returns SntpErrorNetworkFailure, for every value of the clock,
\* of responseTimeoutMs and of blockTimeMs, and calls neither
\* validateServerAuth nor Sntp_DeserializeResponse nor setTime.
C17_ReceiveFailureIsNetworkFailure ==
    ReceiveFailed =>
        /\ call.status = "SntpErrorNetworkFailure"
        /\ call.authStatus = "none"
        /\ call.dsStatus = "none"
        /\ call.setTimeCalls = <<>>
        /\ call.hooks \cap {"validateServerAuth", "setTime"} = {}

\* the latest recvFrom call of the loop of receiveSntpResponse read nothing
ReadNothing ==
    /\ call.op = "Sntp_ReceiveTimeResponse"
    /\ call.read # NULL
    /\ Deref(call.read).bytesRead = 0

\* C18: after a positive single byte read, a read of the rest of the
\* response that returns 0 is retried as long as the time of the get-time
\* hook since the last positive read (or since the loop started) is below
\* SNTP_RECV_POLLING_TIMEOUT_MS; once that time is
\* SNTP_RECV_POLLING_TIMEOUT_MS or more the call gives up with
\* SntpErrorNetworkFailure.
C18_DrainDeadline ==
    ReadNothing =>
        IF Deref(call.read).timedOut
        THEN call.status = "SntpErrorNetworkFailure"
        ELSE call.status = "pending" /\ pc = "receiveLoop"

(***************************************************************************)
(* Properties of sendSntpPacket.                                           *)
(***************************************************************************)
Sending == call.op = "Sntp_SendTimeRequest" /\ pc = "sendSntpPacket"

\* C19: in Sntp_SendTimeRequest every sendTo call is offered the part of
\* the request that is not sent yet: it starts at the number of bytes
\* accepted so far and its length is sntpPacketSize minus that number; the
\* call returns SntpSuccess exactly when the positive values returned add
\* up to sntpPacketSize, and then sendTo is not called again; a negative
\* value, in the first call or after partial sends, ends the call at once
\* with SntpErrorNetworkFailure.
C19_SendLoop ==
    call.op = "Sntp_SendTimeRequest" =>
        /\ Sending =>
              /\ call.status = "pending"
              /\ loc.pIndex = call.sent
              /\ loc.bytesRemaining = ctx.sntpPacketSize - call.sent
              /\ loc.bytesRemaining > 0
        /\ call.status = "SntpSuccess" <=> call.sent = ctx.sntpPacketSize
        /\ call.status = "SntpSuccess" => pc = "idle"
        /\ (call.send # NULL /\ Deref(call.send).bytesSent < 0) =>
              (call.status = "SntpErrorNetworkFailure" /\ pc = "idle")

\* a request with authentication data of which SendChunk bytes were
\* accepted before sendTo failed
C19_Witness ==
    /\ Completed("Sntp_SendTimeRequest")
    /\ call.status = "SntpErrorNetworkFailure"
    /\ ctx.sntpPacketSize = SNTP_PACKET_BASE_SIZE + MaxAuthSize
    /\ call.sent = SendChunk
    /\ Deref(call.send).bytesSent = -1

\* the latest sendTo call returned 0
SentNothing ==
    /\ call.op = "Sntp_SendTimeRequest"
    /\ call.send # NULL
    /\ Deref(call.send).bytesSent = 0

\* the time read after that sendTo call, and the time read at the entry of
\* the loop or after the latest positive send
SendNow == Deref(Deref(call.send).now)
SendBase == Deref(Deref(call.send).lastSendTime)

\* the whole seconds from SendBase to SendNow, counted modulo 2^32
SecondsPassed == ToInt32(Sub32(SendNow.seconds, SendBase.seconds))
\* the clock has not gone back between the two readings
ClockAdvanced ==
    \/ SecondsPassed > 0
    \/ SecondsPassed = 0 /\ Ge32(SendNow.fractions, SendBase.fractions)

\* the milliseconds in the fractions f of a timestamp
MsOfFractions(f) ==
    (Hi(f) * 32768 + Lo(f) \div 2) \div ((SNTP_FRACTION_VALUE_PER_MICROSECOND * 1000) \div 2)
MsPassed ==
    SecondsPassed * 1000 + MsOfFractions(SendNow.fractions)
        - MsOfFractions(SendBase.fractions)

\* C20: a sendTo call that returns 0 is retried exactly when the
\* milliseconds from the time read at the entry of the loop, or after the
\* latest positive send, to the time read after that call are below
\* SNTP_SEND_RETRY_TIMEOUT_MS; otherwise Sntp_SendTimeRequest returns
\* SntpErrorNetworkFailure.  The seconds are counted modulo 2^32, so this
\* holds when they wrap from 0xFFFFFFFF to 0 between the two readings.
C20_SendRetryDeadline ==
    (SentNothing /\ ClockAdvanced) =>
        IF MsPassed < SNTP_SEND_RETRY_TIMEOUT_MS
        THEN call.status = "pending" /\ pc = "sendSntpPacket"
        ELSE call.status = "SntpErrorNetworkFailure" /\ pc = "idle"

\* a retry half a second after the last progress, across the end of NTP
\* era 0
C20_Witness ==
    /\ SentNothing
    /\ SendBase = Timestamp(UINT32_MAX, W(32768, 0))
    /\ SendNow = Timestamp(Zero32, Zero32)
    /\ SecondsPassed = 1
    /\ MsPassed = 501
    /\ call.status = "pending"
    /\ pc = "sendSntpPacket"

(***************************************************************************)
(* Properties of the failures of Sntp_SendTimeRequest and of Sntp_Init.    *)
(***************************************************************************)
DnsFailed == Completed("Sntp_SendTimeRequest") /\ call.status = "SntpErrorDnsFailure"

C21_Step ==
    (pc = "idle" /\ DnsFailed') =>
        /\ call'.hooks = {"resolveDns"}
        /\ ctx'.currentServerIndex = ctx.currentServerIndex
        /\ ctx'.lastRequestTime = ctx.lastRequestTime
        /\ ctx'.sntpPacketSize = ctx.sntpPacketSize
        /\ buf' = buf
        /\ pc' = "idle"

\* C21: when the DNS hook reports failure, Sntp_SendTimeRequest returns
\* SntpErrorDnsFailure without a call of the get-time, authentication or
\* sendTo hooks, and leaves currentServerIndex, lastRequestTime,
\* sntpPacketSize and the network buffer as they were.
C21_DnsFailure == [][C21_Step]_vars

\* a DNS failure after a request with authentication data was made: the
\* time and the size of that request are still in the context
C21_Witness ==
    /\ DnsFailed
    /\ call.hooks = {"resolveDns"}
    /\ ctx.lastRequestTime = Timestamp(One32, W(0, 43707))
    /\ ctx.sntpPacketSize = SNTP_PACKET_BASE_SIZE + MaxAuthSize
    /\ buf[1] = 35

\* the step is a Sntp_SendTimeRequest call that calls generateClientAuth
ClientAuthCalled ==
    /\ pc = "idle"
    /\ call'.op = "Sntp_SendTimeRequest"
    /\ call'.clientAuth # NULL

NothingSent ==
    /\ pc' = "idle"
    /\ "sendTo" \notin call'.hooks
    /\ ctx'.sntpPacketSize = ctx.sntpPacketSize

C22_Step ==
    ClientAuthCalled =>
        LET auth == Deref(call'.clientAuth)
        IN  /\ ctx.generateClientAuth # NULL
            /\ IF auth.status # "SntpSuccess"
               THEN call'.status = auth.status /\ NothingSent
               ELSE IF auth.authDataSize > ctx.bufferSize - 48
               THEN call'.status = "SntpErrorAuthFailure" /\ NothingSent
               ELSE /\ ctx'.sntpPacketSize = 48 + auth.authDataSize
                    /\ call'.status = "pending"
                    /\ pc' = "sendSntpPacket"
                    /\ loc'.pIndex = 0
                    /\ loc'.bytesRemaining = 48 + auth.authDataSize

\* C22: with an authentication interface, Sntp_SendTimeRequest returns
\* the status of generateClientAuth when it is not SntpSuccess, and
\* SntpErrorAuthFailure when the size of the data reported is above
\* bufferSize - 48; in both cases sendTo is not called and sntpPacketSize
\* is left as it was; otherwise sntpPacketSize becomes 48 + that size and
\* as many bytes are offered to sendTo.
C22_ClientAuthentication == [][C22_Step]_vars

\* data that does not fit in the buffer, after a request that had data
C22_Witness ==
    /\ Completed("Sntp_SendTimeRequest")
    /\ call.status = "SntpErrorAuthFailure"
    /\ Deref(call.clientAuth) = [status |-> "SntpSuccess", authDataSize |-> MaxAuthSize + 1]
    /\ ctx.bufferSize = SNTP_PACKET_BASE_SIZE + MaxAuthSize
    /\ ctx.sntpPacketSize = SNTP_PACKET_BASE_SIZE + MaxAuthSize
    /\ "sendTo" \notin call.hooks

\* validateServerAuth refused the response the call received
AuthRefused ==
    /\ Completed("Sntp_ReceiveTimeResponse")
    /\ call.authStatus \in {"SntpErrorAuthFailure", "SntpServerNotAuthenticated"}

\* C23: when validateServerAuth returns SntpErrorAuthFailure or
\* SntpServerNotAuthenticated for a received response,
\* Sntp_ReceiveTimeResponse returns that status without calling
\* Sntp_DeserializeResponse or setTime and without changing
\* currentServerIndex; with an authentication interface a response is
\* deserialized only after validateServerAuth returned SntpSuccess.
C23_ServerAuthenticationGate ==
    /\ AuthRefused =>
          /\ ctx.validateServerAuth # NULL
          /\ call.rxComplete
          /\ call.status = call.authStatus
          /\ call.dsStatus = "none"
          /\ call.setTimeCalls = <<>>
          /\ "setTime" \notin call.hooks
          /\ ctx.currentServerIndex = call.index0
    /\ (call.rxComplete /\ ctx.validateServerAuth # NULL) =>
          /\ "validateServerAuth" \in call.hooks
          /\ call.authStatus \in ValidateAuthStatuses
    /\ call.dsStatus # "none" => AuthPassed

\* the second server's response fails the authentication
C23_Witness ==
    /\ AuthRefused
    /\ call.status = "SntpServerNotAuthenticated"
    /\ call.index0 = 1
    /\ ctx.currentServerIndex = 1

\* C24: the context always has 48 <= sntpPacketSize <= bufferSize, the
\* size of the network buffer, so that the bytes offered to sendTo and the
\* bytes asked of recvFrom lie within the buffer.
C24_PacketSizeWithinBuffer ==
    /\ SNTP_PACKET_BASE_SIZE <= ctx.sntpPacketSize
    /\ ctx.sntpPacketSize <= ctx.bufferSize
    /\ Len(buf) = ctx.bufferSize
    /\ pc = "sendSntpPacket" =>
          /\ loc.pIndex >= 0
          /\ loc.bytesRemaining >= 0
          /\ loc.pIndex + loc.bytesRemaining = ctx.sntpPacketSize
    /\ call.sent <= ctx.sntpPacketSize

\* a request that fills the buffer, sent after a refused one
C24_Witness ==
    /\ Completed("Sntp_SendTimeRequest")
    /\ call.status = "SntpSuccess"
    /\ call.clientAuth = Ptr([status |-> "SntpSuccess", authDataSize |-> MaxAuthSize])
    /\ ctx.sntpPacketSize = ctx.bufferSize
    /\ ctx.bufferSize = SNTP_PACKET_BASE_SIZE + MaxAuthSize
    /\ call.sent = ctx.bufferSize

HarnessStatuses ==
    { "SntpErrorBadParameter", "SntpSuccess", "SntpNoResponseReceived",
      "SntpErrorChangeServer", "SntpRejectedResponse", "SntpErrorResponseTimeout",
      "SntpErrorNetworkFailure" }

ReceiveReturned(status) == Completed("Sntp_ReceiveTimeResponse") /\ call.status = status

InitCalled == call.op = "Sntp_Init"
InitArgsGiven == Deref(call.args)

NullArgument(a) ==
    \/ a.pContext = NULL \/ a.pTimeServers = NULL \/ a.pNetworkBuffer = NULL
    \/ a.resolveDnsFunc = NULL \/ a.getSystemTimeFunc = NULL
    \/ a.setSystemTimeFunc = NULL \/ a.pTransportIntf = NULL

NullTransport(a) == a.sendTo = NULL \/ a.recvFrom = NULL

\* exactly one function of the authentication interface is NULL
OneSidedAuth(a) ==
    a.pAuthIntf # NULL /\ ((a.generateClientAuth = NULL) # (a.validateServerAuth = NULL))

\* a function of the authentication interface is NULL
PartialAuth(a) ==
    a.pAuthIntf # NULL /\ (a.generateClientAuth = NULL \/ a.validateServerAuth = NULL)

InitFailureLeavesContext ==
    (pc = "idle" /\ InitCalled' /\ call'.status # "SntpSuccess") =>
        /\ call'.status \in {"SntpErrorBadParameter", "SntpErrorBufferTooSmall"}
        /\ ctx' = ctx
        /\ buf' = buf

InitSuccessState ==
    (InitCalled /\ call.status = "SntpSuccess") =>
        /\ ctx.currentServerIndex = 0
        /\ ctx.sntpPacketSize = 48
        /\ ctx.lastRequestTime = Timestamp(Zero32, Zero32)
        /\ ctx.currentServerAddr = Zero32
        /\ (ctx.generateClientAuth = NULL) = (ctx.validateServerAuth = NULL)
        /\ (ctx.generateClientAuth = NULL) = (InitArgsGiven.pAuthIntf = NULL)
        /\ ctx.numOfServers = InitArgsGiven.numOfServers
        /\ ctx.bufferSize = InitArgsGiven.bufferSize

\* the statuses of C26 as it is written, with a one-sided authentication
\* interface as the last of the bad parameters
C26_OneSidedOnly ==
    InitCalled =>
        LET a == InitArgsGiven
            bad == \/ NullArgument(a) \/ a.numOfServers = 0
                   \/ NullTransport(a) \/ OneSidedAuth(a)
        IN  /\ bad => call.status = "SntpErrorBadParameter"
            /\ (~bad /\ a.bufferSize < 48) => call.status = "SntpErrorBufferTooSmall"

InitStatuses ==
    InitCalled =>
        LET a == InitArgsGiven
            bad == \/ NullArgument(a) \/ a.numOfServers = 0
                   \/ NullTransport(a) \/ PartialAuth(a)
        IN  /\ bad => call.status = "SntpErrorBadParameter"
            /\ (~bad /\ a.bufferSize < 48) => call.status = "SntpErrorBufferTooSmall"
            /\ (~bad /\ a.bufferSize >= 48) => call.status = "SntpSuccess"

\* C26: Sntp_Init returns SntpErrorBadParameter when the context, the
\* server list, the network buffer, a hook or the transport interface is
\* NULL, when numOfServers is 0, when sendTo or recvFrom is NULL, or when
\* an authentication interface is given with generateClientAuth or
\* validateServerAuth (or both) NULL; it returns SntpErrorBufferTooSmall
\* when these checks pass and bufferSize < 48; a failing call leaves the
\* context as it was; after a success currentServerIndex = 0,
\* sntpPacketSize = 48, lastRequestTime = (0,0), currentServerAddr = 0 and
\* the two authentication functions are both set or both NULL.
C26_InitValidation ==
    [](InitStatuses /\ InitSuccessState) /\ [][InitFailureLeavesContext]_vars

\* a call with the two authentication functions NULL and a buffer of 47
\* bytes, on a context that has sent an authenticated request
C26_Witness ==
    /\ InitCalled
    /\ call.status = "SntpErrorBadParameter"
    /\ InitArgsGiven.pAuthIntf # NULL
    /\ InitArgsGiven.generateClientAuth = NULL
    /\ InitArgsGiven.validateServerAuth = NULL
    /\ InitArgsGiven.bufferSize = 47
    /\ ctx.sntpPacketSize = 48 + MaxAuthSize
    /\ ctx.lastRequestTime # Timestamp(Zero32, Zero32)

(***************************************************************************)
(* Properties of the utilities.                                            *)
(***************************************************************************)
Polled == serPc = "polled"
PollTolerance == Uint16(serIn.clockFreqTolerance)
PollAccuracy == Uint16(serIn.desiredAccuracy)
\* floor(desiredAccuracy * 1000 / clockFreqTolerance), in the integers
ExactInterval == (PollAccuracy * 1000) \div PollTolerance
PowersOfTwo == { 2 ^ n : n \in 0..30 }

\* C27: with a non-NULL output Sntp_CalculatePollInterval returns
\* SntpErrorBadParameter when an input is 0; otherwise, with exact =
\* floor(desiredAccuracy * 1000 / clockFreqTolerance), it returns
\* SntpZeroPollInterval when exact = 0 and else SntpSuccess with the
\* largest power of two <= exact in *pPollInterval; the output is written
\* only when SntpSuccess is returned, and no other status is returned.
C27_PollInterval ==
    (Polled /\ serIn.pPollInterval # NULL) =>
        /\ serOut.status \in {"SntpErrorBadParameter", "SntpZeroPollInterval", "SntpSuccess"}
        /\ serOut.status = "SntpErrorBadParameter" <=> (PollTolerance = 0 \/ PollAccuracy = 0)
        /\ serOut.status = "SntpZeroPollInterval" <=>
               (PollTolerance # 0 /\ PollAccuracy # 0 /\ ExactInterval = 0)
        /\ serOut.status # "SntpSuccess" => serOut.pPollInterval = serIn.pPollInterval
        /\ serOut.status = "SntpSuccess" =>
               /\ Deref(serOut.pPollInterval) \in PowersOfTwo
               /\ Deref(serOut.pPollInterval) <= ExactInterval
               /\ ExactInterval < 2 * Deref(serOut.pPollInterval)

\* the largest interval: 65535 ms with 1 ppm, 2^25 s for 65535000 s
C27_Witness ==
    /\ Polled
    /\ serIn.clockFreqTolerance = 1
    /\ serIn.desiredAccuracy = 65535
    /\ serOut = [status |-> "SntpSuccess", pPollInterval |-> Ptr(33554432)]

PolledWith(tolerance, accuracy) ==
    /\ Polled
    /\ serIn.clockFreqTolerance = tolerance
    /\ serIn.desiredAccuracy = accuracy
    /\ serIn.pPollInterval # NULL

\* the two calls of C28 as it is written, the first with 500 ppm
C28_FiveHundredPpm ==
    /\ PolledWith(500, 60000) =>
           serOut = [status |-> "SntpSuccess", pPollInterval |-> Ptr(262144)]
    /\ PolledWith(1000000, 1) => serOut.status = "SntpZeroPollInterval"

\* C28: Sntp_CalculatePollInterval called with a tolerance of 200 ppm and
\* an accuracy of 60000 ms returns SntpSuccess and 2^18 = 262144 seconds;
\* called with 1,000,000 ppm and 1 ms it returns SntpZeroPollInterval.
C28_PollIntervalExamples ==
    /\ PolledWith(200, 60000) =>
           serOut = [status |-> "SntpSuccess", pPollInterval |-> Ptr(262144)]
    /\ PolledWith(1000000, 1) =>
           serOut = [status |-> "SntpZeroPollInterval", pPollInterval |-> serIn.pPollInterval]

C28_Witness == PolledWith(200, 60000) /\ Deref(serOut.pPollInterval) = 262144

\* Sntp_ConvertToUnixTime has returned from a call with no NULL argument
Converted ==
    /\ serPc = "converted"
    /\ serIn.pSntpTime # NULL
    /\ serIn.pUnixTimeSecs # NULL
    /\ serIn.pUnixTimeMicrosecs # NULL

SntpSeconds == Deref(serIn.pSntpTime).seconds
SntpFractions == Deref(serIn.pSntpTime).fractions
\* seconds in [2208988800, 2^32)
FromUnixEpoch == Ge32(SntpSeconds, W(33706, 32384))
\* seconds in [0, 61505151]
InEraOne == Ge32(W(938, 32383), SntpSeconds)

\* the value of a uint32_t below 2^31
Value31(w) == Hi(w) * Half + Lo(w)

\* the seconds between the UNIX epoch and the time of a supported
\* timestamp: seconds - 2208988800 in era 0, 2085978496 + seconds in era 1
SecondsSinceUnixEpoch ==
    IF FromUnixEpoch
    THEN (Hi(SntpSeconds) - 33706) * Half + (Lo(SntpSeconds) - 32384)
    ELSE 2085978496 + Hi(SntpSeconds) * Half + Lo(SntpSeconds)

\* q = floor(x / 4295): q * 4295 <= x < (q + 1) * 4295
IsMicroseconds(q, x) ==
    /\ Hi(q) < 16
    /\ Ge32(x, MulSmall32(q, 4295))
    /\ Hi(Sub32(x, MulSmall32(q, 4295))) = 0
    /\ Lo(Sub32(x, MulSmall32(q, 4295))) < 4295

SymmetricPath(D, p) ==
    /\ serIn.T2.seconds = Add32(Deref(serReq.reqTime).seconds, W(0, D))
    /\ serIn.T3.seconds = Add32(serIn.T2.seconds, W(0, p))
    /\ serIn.T4.seconds = Add32(serIn.T3.seconds, W(0, D))

\* the seconds roll over between T1 and T4
CrossesEra == ~Ge32(serIn.T4.seconds, Deref(serReq.reqTime).seconds)

\* the statement of C30 as it is written: the offset is p / 2, up to one
\* second when the timestamps cross the era boundary
C30_HalfProcessingTime ==
    EchoDeserialized =>
        \A D \in Delays, p \in ProcessingTimes :
            SymmetricPath(D, p) =>
                /\ serOut.status = "SntpSuccess"
                /\ IF CrossesEra
                   THEN \E e \in -1..1 :
                            IsHalfTowardZero(Deref(serOut.parsed).clockOffsetSec + e, p)
                   ELSE IsHalfTowardZero(Deref(serOut.parsed).clockOffsetSec, p)

\* C30: for a small path delay D and a processing time p of the server, if
\* T2 = T1 + D, T3 = T2 + p and T4 = T3 + D in the seconds, the clock
\* offset Sntp_DeserializeResponse computes is 0 whatever p is, also when
\* the timestamps cross the era boundary.
C30_SymmetricPathOffset ==
    EchoDeserialized =>
        \A D \in Delays, p \in ProcessingTimes :
            SymmetricPath(D, p) =>
                /\ serOut.status = "SntpSuccess"
                /\ Deref(serOut.parsed).clockOffsetSec = 0

\* five seconds each way and eight in the server, the response sent after
\* the rollover
C30_Witness ==
    /\ EchoDeserialized
    /\ Deref(serReq.reqTime).seconds = W(65535, 65530)
    /\ SymmetricPath(5, 8)
    /\ CrossesEra
    /\ serIn.T3.seconds = W(0, 7)
    /\ serOut.status = "SntpSuccess"
    /\ Deref(serOut.parsed).clockOffsetSec = 0

(***************************************************************************)
(* A context on which no request is ever sent: after Sntp_Init the caller  *)
(* only calls Sntp_ReceiveTimeResponse.                                    *)
(***************************************************************************)
UnaskedNext ==
    \/ Sntp_ReceiveTimeResponse
    \/ receiveSntpResponse
    \/ receiveLoop

UnaskedSpec == Init /\ [][UnaskedNext]_vars

\* C32: currentServerIndex advances from i to i + 1 only in a call of
\* Sntp_ReceiveTimeResponse that a successful Sntp_SendTimeRequest for
\* server i precedes; on a context on which no request was sent since
\* Sntp_Init the index therefore stays at the first server.
C32_AdvanceOnlyWhenAwaiting == ctx.currentServerIndex = 0

\* a Kiss-o'-Death response was taken although nothing was sent, and the
\* first server is used up
C32_UnaskedRotation ==
    /\ pc = "idle"
    /\ call.op = "Sntp_ReceiveTimeResponse"
    /\ call.status = "SntpRejectedResponse"
    /\ call.index0 = 0
    /\ ctx.currentServerIndex = 1


\* The response in the network buffer was accepted by the call that just
\* returned: setTimeFunc was called with it.
ResponseAccepted ==
    /\ pc = "idle"
    /\ call.op = "Sntp_ReceiveTimeResponse"
    /\ call.status = "SntpSuccess"
    /\ call.setTimeCalls # <<>>

\* Sntp_ReceiveTimeResponse receives the same bytes once more at the time
\* now and the server authenticates: setTimeFunc is called again.
AcceptedAgain(now) == processServerResponse(ctx, buf, now, "SntpSuccess").setTime # <<>>

DrainRead == pc = "receiveLoop" /\ call'.read # NULL

\* the bytes of the response received before the call
BytesReceived == ctx.sntpPacketSize - loc.bytesRemaining

\* C34: every recvFrom call of the loop of receiveSntpResponse asks for
\* the bytes of the response that are still missing, at the offset that
\* follows the bytes already received, so that the byte it reads is stored
\* there and a response received completely lies in the buffer in the order
\* of arrival.
C34_Step ==
    DrainRead =>
        LET r == Deref(call'.read)
        IN  /\ r.pBuffer = BytesReceived
            /\ r.bytesToRecv = loc.bytesRemaining
            /\ r.bytesRead = 1 =>
                  \E byte \in RecvBytes : buf' = [buf EXCEPT ![BytesReceived + 1] = byte]

C34_ResponseAssembly == [][C34_Step]_vars


\* the hooks and the serializer as a successful Sntp_SendTimeRequest calls
\* them for the first time, the clock or the resolver first
SendOrder(first, second) ==
    <<first, second, "Sntp_SerializeRequest">>
        \o (IF ctx.generateClientAuth # NULL THEN <<"generateClientAuth">> ELSE <<>>)
        \o <<"sendTo">>

\* the position of a name in the order of a call, 0 if it was not called
PlaceOf(name) ==
    IF \E i \in 1..Len(call.order) : call.order[i] = name
    THEN CHOOSE i \in 1..Len(call.order) : call.order[i] = name
    ELSE 0

\* The clock is read for T1 before the DNS hook is called, and a successful
\* call reads the clock, resolves the server, serializes, generates the
\* client authentication if there is one and sends, in this order.
C35_ClockBeforeDns ==
    /\ call.op = "Sntp_SendTimeRequest" /\ PlaceOf("resolveDns") > 0
          => PlaceOf("getTime") > 0 /\ PlaceOf("getTime") < PlaceOf("resolveDns")
    /\ SendSucceeded => call.order = SendOrder("getTime", "resolveDns")

\* C35: in Sntp_SendTimeRequest the DNS hook is called before the clock is
\* read for T1, the clock is not read when the resolution fails, and the
\* order in a successful call is resolve DNS, read the clock, serialize,
\* generateClientAuth if there is one, sendTo.
C35_HookOrder ==
    /\ call.op = "Sntp_SendTimeRequest" /\ PlaceOf("getTime") > 0
          => PlaceOf("resolveDns") > 0 /\ PlaceOf("resolveDns") < PlaceOf("getTime")
    /\ call.op = "Sntp_SendTimeRequest" /\ call.status = "SntpErrorDnsFailure"
          => call.order = <<"resolveDns">>
    /\ SendSucceeded => call.order = SendOrder("resolveDns", "getTime")

\* a request with authentication data was sent
C35_Witness ==
    /\ SendSucceeded
    /\ call.order = <<"resolveDns", "getTime", "Sntp_SerializeRequest",
                      "generateClientAuth", "sendTo">>
    /\ Deref(call.clientAuth).authDataSize > 0


\* the fields of the context that neither call may change: the network
\* buffer's size, the server list, the hooks and the response timeout
Configuration(c) ==
    <<c.bufferSize, c.numOfServers, c.generateClientAuth, c.validateServerAuth,
      c.responseTimeoutMs>>

\* the statuses of Sntp_ReceiveTimeResponse after which the request is
\* still outstanding
StillOutstanding ==
    { "SntpInvalidResponse", "SntpErrorResponseTimeout", "SntpNoResponseReceived",
      "SntpErrorNetworkFailure", "SntpErrorAuthFailure", "SntpServerNotAuthenticated" }

C38_Step ==
    /\ call'.op = "Sntp_ReceiveTimeResponse" =>
          /\ ctx' = [ctx EXCEPT !.currentServerIndex = ctx'.currentServerIndex]
          /\ call'.status \in StillOutstanding => ctx' = ctx
    /\ call'.op = "Sntp_SendTimeRequest" =>
          /\ ctx'.currentServerIndex = ctx.currentServerIndex
          /\ Configuration(ctx') = Configuration(ctx)

\* C38: Sntp_ReceiveTimeResponse changes no field of the context but
\* currentServerIndex (lastRequestTime, currentServerAddr, sntpPacketSize,
\* responseTimeoutMs, the server list and the hooks stay), and leaves the
\* whole context as it was when it returns SntpInvalidResponse, a timeout, a
\* network error or an authentication error, so that a later call matches
\* the same request; Sntp_SendTimeRequest never changes currentServerIndex.
C38_FrameConditions == [][C38_Step]_vars

\* a response that does not echo the request was refused, and the request
\* with its authentication data is still the one of the context
C38_Witness ==
    /\ ReceiveReturned("SntpInvalidResponse")
    /\ ctx.lastRequestTime # Timestamp(Zero32, Zero32)
    /\ ctx.sntpPacketSize > SNTP_PACKET_BASE_SIZE
    /\ ctx.currentServerIndex = call.index0


\* the Sntp_ReceiveTimeResponse call returned, and it had a context with a
\* server to expect a response from
ReceiveAttempted ==
    /\ Completed("Sntp_ReceiveTimeResponse")
    /\ call.status \notin {"SntpErrorBadParameter", "SntpErrorChangeServer"}

\* the latest recvFrom call of the loop of receiveSntpResponse read a byte
\* and the call returned: it was the last byte of the response
ReceivedCompletely ==
    /\ Completed("Sntp_ReceiveTimeResponse")
    /\ call.read # NULL
    /\ Deref(call.read).bytesRead > 0

\* the statuses processServerResponse returns
ProcessedStatuses ==
    { "SntpSuccess", "SntpRejectedResponse", "SntpInvalidResponse",
      "SntpErrorAuthFailure", "SntpServerNotAuthenticated" }

\* C39: a Sntp_ReceiveTimeResponse call that has a server to expect a
\* response from makes at least one receive attempt, also with blockTimeMs
\* = 0, and tests the response timeout only when the attempt of the
\* iteration delivered no complete response: a response that was received
\* completely is processed, with SntpSuccess and a setTimeFunc call if it
\* is a time, even if responseTimeoutMs or more have passed since T1.
C39_DeadlineAfterReceive ==
    ReceiveAttempted =>
        /\ "recvFrom" \in call.hooks
        /\ call.peek # NULL
        /\ call.status = "SntpErrorResponseTimeout" => ~ReceivedCompletely
        /\ ReceivedCompletely =>
              /\ call.rxComplete
              /\ call.status \in ProcessedStatuses
              /\ call.status = "SntpSuccess" <=> call.setTimeCalls # <<>>
              /\ call.dsStatus \in {"SntpSuccess", "SntpClockOffsetOverflow"}
                    => call.status = "SntpSuccess"

\* a time that arrives after the response timeout is set all the same
C39_Witness ==
    /\ ReceiveAttempted
    /\ ReceivedCompletely
    /\ call.status = "SntpSuccess"
    /\ Len(call.setTimeCalls) = 1
    /\ Ge32(SinceRequest, ctx.responseTimeoutMs)


\* C37: whenever Sntp_DeserializeResponse returns SntpSuccess for an
\* accepted response, both differences d(T2,T1) and d(T3,T4) were below
\* 2^30 in magnitude, so that their sum fits a signed 32 bit integer, and
\* -2^30 < clockOffsetSec < 2^30: a valid offset is never 0x7FFFFFFF; when
\* one of the differences is 2^30 or more in magnitude the status is
\* SntpClockOffsetOverflow.
C37_OffsetRange ==
    LET send == d(serIn.T2, Deref(serReq.reqTime))
        recv == d(serIn.T3, serIn.T4)
        clockOffsetSec == Deref(serOut.parsed).clockOffsetSec
    IN  EchoDeserialized =>
            /\ serOut.status \in {"SntpSuccess", "SntpClockOffsetOverflow"}
            /\ serOut.status = "SntpSuccess" =>
                  /\ Near(send) /\ Near(recv)
                  /\ send + recv > -2147483647 /\ send + recv < 2147483647
                  /\ Near(clockOffsetSec)
                  /\ clockOffsetSec # SNTP_CLOCK_OFFSET_OVERFLOW
            /\ (~Near(send) \/ ~Near(recv)) => serOut.status = "SntpClockOffsetOverflow"

\* the largest offset: the server is 2^30 - 1 seconds ahead both ways
C37_Witness ==
    /\ EchoDeserialized
    /\ serOut.status = "SntpSuccess"
    /\ d(serIn.T2, Deref(serReq.reqTime)) = 1073741823
    /\ d(serIn.T3, serIn.T4) = 1073741823
    /\ Deref(serOut.parsed).clockOffsetSec = 1073741823


\* C40: the status and the clockOffsetSec that Sntp_DeserializeResponse
\* returns for an accepted response are a function of the seconds of T1,
\* T2, T3 and T4 only, those of d(T2,T1) and d(T3,T4): responses that
\* differ in the fractions of T2, T3 or T4 only get the same status and the
\* same offset; the fractions of T3 are returned in serverTime.
C40_SecondsOnly ==
    LET send == d(serIn.T2, Deref(serReq.reqTime))
        recv == d(serIn.T3, serIn.T4)
        parsed == Deref(serOut.parsed)
    IN  EchoDeserialized =>
            /\ IF Near(send) /\ Near(recv)
               THEN /\ serOut.status = "SntpSuccess"
                    /\ IsHalfTowardZero(parsed.clockOffsetSec, send + recv)
               ELSE /\ serOut.status = "SntpClockOffsetOverflow"
                    /\ parsed.clockOffsetSec = SNTP_CLOCK_OFFSET_OVERFLOW
            /\ parsed.serverTime = serIn.T3

\* half a second more in T3 would make d(T3,T4) 2^30 if it counted
C40_Witness ==
    /\ EchoDeserialized
    /\ serIn.T2 = Timestamp(W(0, 3), UINT32_MAX)
    /\ serIn.T3 = Timestamp(W(16384, 2), W(32768, 0))
    /\ serIn.T4 = Timestamp(W(0, 3), UINT32_MAX)
    /\ serOut.status = "SntpSuccess"
    /\ Deref(serOut.parsed).clockOffsetSec = 536870911


(***************************************************************************)
(* Calls that run on: every hook returns, so a call that is in one of its  *)
(* loops takes its next step.  The caller may stop calling at any time.    *)
(***************************************************************************)
LiveNext ==
    \/ Sntp_SendTimeRequest
    \/ sendSntpPacket
    \/ Sntp_ReceiveTimeResponse
    \/ receiveSntpResponse
    \/ receiveLoop

LiveSpec ==
    /\ Init
    /\ [][LiveNext]_vars
    /\ WF_vars(sendSntpPacket)
    /\ WF_vars(receiveSntpResponse)
    /\ WF_vars(receiveLoop)

\* C36: every Sntp_ReceiveTimeResponse call returns, whatever recvFrom
\* returns: a call that read the first byte of a response and reads the
\* rest leaves the loop of receiveSntpResponse, also when recvFrom returns
\* zero for ever.
C36_DrainLoopEnds == (pc = "receiveLoop") ~> (pc = "idle")


(***************************************************************************)
(* Two contexts.  The engine runs on the context that the variables of the *)
(* engine hold; the other context, with its own buffer and with the place  *)
(* its caller has reached, waits in serIn.  SwitchContext lets the caller  *)
(* of the other context make the next call.  Each caller makes one call    *)
(* after Sntp_Init, one Sntp_SendTimeRequest, the other                    *)
(* Sntp_ReceiveTimeResponse.                                               *)
(***************************************************************************)
Context == [ctx |-> ctx, buf |-> buf, pc |-> pc, loc |-> loc, call |-> call, hist |-> hist]

InitializedContext(a) ==
    [ctx |-> InitContext(a),
     buf |-> [i \in 1..a.bufferSize |-> 0],
     pc |-> "idle",
     loc |-> NoLocals,
     call |-> [NewCall("Sntp_Init", 0) EXCEPT !.status = "SntpSuccess", !.args = Ptr(a)],
     hist |-> NoHistory]

IsoInit ==
    /\ \E a \in ValidInitArgs :
         /\ a.numOfServers = 1 /\ a.pAuthIntf = NULL
         /\ ctx = InitializedContext(a).ctx
         /\ buf = InitializedContext(a).buf
         /\ pc = InitializedContext(a).pc
         /\ loc = InitializedContext(a).loc
         /\ call = InitializedContext(a).call
         /\ hist = InitializedContext(a).hist
    /\ \E a \in ValidInitArgs :
         /\ a.numOfServers = MaxServers /\ a.pAuthIntf # NULL
         /\ a.bufferSize = SNTP_PACKET_BASE_SIZE + MaxAuthSize
         /\ serIn = InitializedContext(a)
    /\ serPc = "iso"
    /\ serReq = <<>>
    /\ serResp = <<>>
    /\ serOut = <<>>

SwitchContext ==
    /\ serPc = "iso"
    /\ pc = "idle"
    /\ serIn' = Context
    /\ ctx' = serIn.ctx
    /\ buf' = serIn.buf
    /\ pc' = serIn.pc
    /\ loc' = serIn.loc
    /\ call' = serIn.call
    /\ hist' = serIn.hist
    /\ UNCHANGED <<serPc, serReq, serResp, serOut>>

\* the caller of the context with one server sends a request, the caller
\* of the other context looks for a response
Requests == call.op = "Sntp_Init" /\ ctx.numOfServers = 1
Listens == call.op = "Sntp_Init" /\ ctx.numOfServers > 1

IsoNext ==
    \/ Requests /\ Sntp_SendTimeRequest
    \/ sendSntpPacket
    \/ Listens /\ Sntp_ReceiveTimeResponse
    \/ receiveSntpResponse
    \/ receiveLoop
    \/ SwitchContext

IsoSpec == IsoInit /\ [][IsoNext]_vars


\* The step is a step of the engine on its context, and the other context
\* is as it was; or the contexts change places as they are.
C31_Step ==
    /\ \/ serIn' = serIn
       \/ serIn' = Context /\ Context' = serIn
    /\ UNCHANGED <<serPc, serReq, serResp, serOut>>

=============================================================================
